---------------------------- MODULE Spec2Model ----------------------------
(***************************************************************************)
(* Model of the hotel_scanner scrape-and-schedule engine.                  *)
(*                                                                         *)
(* Several state machines share this module, each with its own             *)
(* specifications; the variables of the machines a specification does not  *)
(* run keep their initial value.                                           *)
(*   SpecFetch   : _safe_get_page under its tenacity @retry decorator      *)
(*   SpecRun     : scrape_with_concurrency / scrape_single_request         *)
(*   SpecSave    : the same run with a small database batch size           *)
(*   SpecSched   : scheduler_service.py over the APScheduler job store     *)
(*   SpecMon     : PerformanceMonitor.record_metrics from several threads  *)
(*   SpecAlert   : AlertManager.check_and_send_alerts over the monitor     *)
(*   SpecNotify  : the same scanner with notification sinks that may fail  *)
(*   SpecSnap    : get_overall_statistics and is_site_healthy              *)
(*   SpecTrack   : the context manager PerformanceMonitor.track_scraping   *)
(*   SpecLimiter : RateLimiter.wait_if_needed                              *)
(*   SpecProxy   : ProxyManager                                            *)
(*   SpecPrice   : the price parsers and DataValidator.is_valid_price      *)
(* SpecRunFair, SpecSchedFair and SpecSnapFair add the fairness of the     *)
(* thread pool, of the scheduler's timer and of the monitor's threads.     *)
(***************************************************************************)
EXTENDS Integers, Sequences, FiniteSets, TLC

VARIABLES
    \* ---- page fetch (_safe_get_page) ----
    load_script,      \* what driver.get does on the 1st, 2nd, 3rd call (input)
    ready_script,     \* whether WebDriverWait(...).until succeeds on each call (input)
    human_script,     \* whether _simulate_human_behavior's scrolling succeeds (input)
    fetch_pc,         \* "idle" | "calling" | "done"
    attempt_number,   \* tenacity's attempt counter for the call in progress
    get_calls,        \* number of driver.get calls made on the session
    fetch_result,     \* "none" | "True" | "False" | "RetryError" | "raised"
    \* ---- concurrent orchestrator (scrape_with_concurrency) ----
    target_sites,     \* app_config['target_sites']: sequence of [name, enabled]
    main_pc,          \* "submit" | "collect" | "returned"
    work_queue,       \* the executor's queue of submitted, not yet started requests
    running,          \* requests a pool thread is executing
    task_pc,          \* per request: "new" | "queued" | "acquire" | "sites" | "quit" | "save" | "done"
    driver,           \* per request: "none" | "open" | "quit"
    quit_calls,       \* per request: number of driver.quit() calls
    site_idx,         \* per request: position of the for-loop in target_sites
    site_log,         \* per request: sequence of [site, outcome, cards] of the sites visited
    all_results,      \* per request: the all_results list
    future,           \* per request: [state, value] of its Future
    scrape_runs,      \* per request: number of scrape_single_request calls
    results,          \* the results dict of scrape_with_concurrency
    db_prices,        \* per request: the committed transactions of HotelPrice rows, in order
    last_crawled,     \* per request: whether last_crawled_at was written by this run
    batch_size,       \* config['database']['batch_size']
    acquire,          \* per request: [path, errors] of its get_webdriver call
    \* ---- job registry (scheduler_service.py) ----
    jobs,             \* the scheduler's job store: set of [id, args, hours, next_run_time]
    now,              \* the clock, in hours
    crawl_interval_hours, \* APP_SETTINGS['crawl_interval_hours']
    search_requests,  \* per request id: "tracking" | "paused" | "absent" (SearchRequest rows)
    wrapper_pc,       \* per (caller, request id): "idle", or "scraping" inside job_wrapper
    escaped,          \* (caller, request id) pairs whose job_wrapper let an exception out
    last_op,          \* the operation that acted last: [op, id, branch, flag]
    \* ---- monitoring (utils/monitoring.py) ----
    stats_lock,       \* PerformanceMonitor._lock: "free", or the thread that holds it
    metrics_history,  \* PerformanceMonitor.metrics_history (a deque with maxlen)
    site_stats,       \* PerformanceMonitor.site_stats: the defaultdict, keyed by the sites present
    mon_local,        \* per worker thread: "idle", or the record being added and the counters read
    mon_calls,        \* per site: [n, ok, dur] summed over the record_metrics calls that returned
    alert_history,    \* AlertManager.alert_history
    last_alert_times, \* AlertManager.last_alert_times, keyed by the alert keys present
    dispatched,       \* number of _send_notification calls
    notify_config,    \* config['notifications']: the sinks whose `enabled` is set
    sink_calls,       \* per sink: number of calls of its _send_*_notification
    sink_errors,      \* number of errors _send_notification logged
    scan_pc,          \* "idle" | "scanning": check_and_send_alerts
    current_time,     \* current_time of the scan under way (time.time() at its start)
    scan_keys,        \* the keys of site_stats when the scan's iteration began
    scan_todo,        \* the sites the scan's for-loop has not reached yet
    mon_now,          \* time.time(), in seconds
    mon_last,         \* what the monitoring step that acted last did
    snap_pc,          \* get_overall_statistics: "idle" | "waiting" | "sites"
    snap_todo,        \* the sites its for-loop over site_stats has not reached yet
    snap_returns,     \* number of get_overall_statistics calls that returned
    track_last,       \* the last `with track_scraping(...)` left: [thread, body, exit]
    \* ---- helpers (utils/scraper_helpers.py) ----
    rl_now,           \* time.time(), in seconds after the limiter was made
    request_times,    \* RateLimiter.request_times
    admitted,         \* the times at which the wait_if_needed calls returned
    proxies,          \* ProxyManager.proxies: proxy_settings.proxies of the config
    current_proxy_index, \* ProxyManager.current_proxy_index
    failed_proxies,   \* ProxyManager.failed_proxies
    proxy_last,       \* the last ProxyManager call: [op, value, failed_before]
    price_text,       \* the text handed to the price parsers (input)
    price_in,         \* the [price, currency] handed to is_valid_price (input)
    price_last        \* the last parser or validator call: [op, result, valid, stored]

fetchVars == <<load_script, ready_script, human_script, fetch_pc,
               attempt_number, get_calls, fetch_result>>

runVars == <<target_sites, main_pc, work_queue, running, task_pc, driver,
             quit_calls, site_idx, site_log, all_results, future, scrape_runs,
             results, db_prices, last_crawled, batch_size, acquire>>

schedVars == <<jobs, now, crawl_interval_hours, search_requests, wrapper_pc,
               escaped, last_op>>

monVars == <<stats_lock, metrics_history, site_stats, mon_local, mon_calls,
             alert_history, last_alert_times, dispatched, notify_config,
             sink_calls, sink_errors, scan_pc, current_time,
             scan_keys, scan_todo, mon_now, mon_last,
             snap_pc, snap_todo, snap_returns, track_last>>

helperVars == <<rl_now, request_times, admitted,
                proxies, current_proxy_index, failed_proxies, proxy_last,
                price_text, price_in, price_last>>

vars == <<fetchVars, runVars, schedVars, monVars, helperVars>>

-----------------------------------------------------------------------------
(* Page fetch and retry policy                                             *)

\* stop=stop_after_attempt(3)
StopAfterAttempt == 3

\* What driver.get(url) can do: load, or raise one of these exception kinds.
\* TimeoutException is a subclass of WebDriverException; "Other" stands for
\* any exception outside that hierarchy (e.g. a malformed-URL ValueError).
LoadOutcomes == {"ok", "TimeoutException", "WebDriverException", "Other"}

\* retry=retry_if_exception_type((TimeoutException, WebDriverException))
RetryExceptionTypes == {"TimeoutException", "WebDriverException"}

Returns(v) == [kind |-> "return", value |-> v]
Raises(e)  == [kind |-> "raise", value |-> e]

\* The exception, if any, raised inside the try block of _safe_get_page:
\* driver.get, then the readiness wait (which raises TimeoutException when
\* document.readyState never becomes "complete"). _simulate_human_behavior
\* swallows its own errors, so `human` never changes the outcome.
TryBlock(load, ready, human) ==
    IF load # "ok" THEN Raises(load)
    ELSE IF ~ready THEN Raises("TimeoutException")
    ELSE Returns("True")

\* The decorated function's body: the try block and its two handlers,
\* `except TimeoutException: return False` and `except Exception: return False`.
SafeGetPageBody(load, ready, human) ==
    LET r == TryBlock(load, ready, human) IN
    IF r.kind = "return" THEN r
    ELSE IF r.value = "TimeoutException" THEN Returns("False")
    ELSE Returns("False")

\* A retry policy that looks at the result instead of the exception kind:
\* every attempt that did not return True is repeated until the stop limit.
RetryDecisionOnFailure(outcome, n) ==
    IF outcome = Returns("True") THEN [do |-> "return", value |-> "True"]
    ELSE IF n >= StopAfterAttempt
         THEN [do |-> "return", value |-> "False"]
    ELSE [do |-> "retry", value |-> "none"]

\* tenacity's decision after one attempt: "return" the value, "retry",
\* give up with RetryError, or let a non-retryable exception propagate.
RetryDecision(outcome, n) ==
    IF outcome.kind = "return" THEN [do |-> "return", value |-> outcome.value]
    ELSE IF outcome.value \notin RetryExceptionTypes
         THEN [do |-> "propagate", value |-> "raised"]
    ELSE IF n >= StopAfterAttempt
         THEN [do |-> "propagate", value |-> "RetryError"]
    ELSE [do |-> "retry", value |-> "none"]

FetchStart ==
    /\ load_script \in [1..StopAfterAttempt -> LoadOutcomes]
    /\ ready_script \in [1..StopAfterAttempt -> BOOLEAN]
    /\ human_script \in [1..StopAfterAttempt -> BOOLEAN]
    /\ fetch_pc = "idle"
    /\ attempt_number = 0
    /\ get_calls = 0
    /\ fetch_result = "none"

FetchOff ==
    /\ load_script = [i \in 1..StopAfterAttempt |-> "ok"]
    /\ ready_script = [i \in 1..StopAfterAttempt |-> TRUE]
    /\ human_script = [i \in 1..StopAfterAttempt |-> TRUE]
    /\ fetch_pc = "off"
    /\ attempt_number = 0
    /\ get_calls = 0
    /\ fetch_result = "none"

\* The caller invokes self._safe_get_page(driver, url).
SafeGetPageCall ==
    /\ fetch_pc = "idle"
    /\ fetch_pc' = "calling"
    /\ attempt_number' = 1
    /\ UNCHANGED <<load_script, ready_script, human_script, get_calls, fetch_result>>
    /\ UNCHANGED <<runVars, schedVars, monVars, helperVars>>

\* One attempt: the body runs (one driver.get), then tenacity decides.
SafeGetPageAttempt ==
    /\ fetch_pc = "calling"
    /\ LET n == attempt_number
           d == RetryDecision(
                    SafeGetPageBody(load_script[n], ready_script[n], human_script[n]), n)
       IN /\ get_calls' = get_calls + 1
          /\ IF d.do = "retry"
             THEN /\ attempt_number' = n + 1
                  /\ UNCHANGED <<fetch_pc, fetch_result>>
             ELSE /\ fetch_pc' = "done"
                  /\ fetch_result' = d.value
                  /\ UNCHANGED attempt_number
    /\ UNCHANGED <<load_script, ready_script, human_script>>
    /\ UNCHANGED <<runVars, schedVars, monVars, helperVars>>

FetchNext == SafeGetPageCall \/ SafeGetPageAttempt

-----------------------------------------------------------------------------
(* Concurrent orchestrator                                                 *)

\* request.id of the tracked requests handed to scrape_with_concurrency, in
\* list order.
RequestIds == {1, 2, 3}

NumRequests == Cardinality(RequestIds)

\* config.get('max_concurrent_requests', 3): the width of the worker pool.
MaxWorkers == 2

\* Largest number of hotel cards a Booking.com result page yields a
\* candidate for (the code keeps at most hotel_cards[:10]).
MaxCards == 1

\* The configured sites, in configured order (names as in load_config);
\* "Trip.com" is a site without a strategy of its own.
SiteNames == <<"Agoda", "Booking.com", "Trip.com">>

\* len(hotels) in _generate_enhanced_fake_data
FakeHotels == 3

Candidate(site, k) == [source_site |-> site, hotel |-> k]

\* _generate_enhanced_fake_data(site_name, site_config)
GenerateEnhancedFakeData(site) == [k \in 1..FakeHotels |-> Candidate(site, k)]

\* What one visit of a site can come to. Only the Booking.com strategy
\* loads a page: its fetch may fail (_safe_get_page returns False), the
\* result list may never appear, a WebDriver call may raise, or the page is
\* parsed into `cards` candidates. The other strategies return fake data.
SiteOutcomes(site) ==
    IF site = "Booking.com"
    THEN {"fetch_failed", "no_results", "raised", "parsed"}
    ELSE {"fake"}

\* _scrape_site_enhanced: dispatch on the site name; an exception of the
\* strategy is caught and logged, and `results` stays [].
ScrapeSiteEnhanced(site, outcome, cards) ==
    CASE outcome = "fake" -> GenerateEnhancedFakeData(site)
      [] outcome = "parsed" -> [k \in 1..cards |-> Candidate(site, k)]
      [] outcome = "fetch_failed" -> <<>>
      [] outcome = "no_results" -> <<>>
      [] outcome = "raised" -> <<>>

SiteFailed(outcome) == outcome \in {"fetch_failed", "raised"}

Pending == [state |-> "pending", value |-> <<>>]

\* The ways get_webdriver can go: the driver is returned; use_undetected
\* is configured off, so the `if` body is skipped and None returned;
\* uc.Chrome(...) raises; or a call on the new driver (execute_script,
\* set_page_load_timeout, implicitly_wait) raises.
AcquirePaths == {"ok", "not_undetected", "chrome_failed", "setup_failed"}

NotAcquired == [path |-> "none", errors |-> {}]

\* The paths on which uc.Chrome(options=...) returned: a browser process
\* runs from then on, until quit() is called on its driver.
BrowserStarted(path) == path \in {"ok", "setup_failed"}

\* Only the `except` of get_webdriver reporting.
AcquireErrorsInGetWebdriverOnly(path) ==
    IF path \in {"chrome_failed", "setup_failed"} THEN {"get_webdriver"} ELSE {}

\* The logger.error calls made on a path: by the `except` of
\* get_webdriver, and by scrape_single_request when it got no driver.
AcquireErrors(path) ==
    (IF path \in {"chrome_failed", "setup_failed"} THEN {"get_webdriver"} ELSE {})
    \cup (IF path # "ok" THEN {"scrape_single_request"} ELSE {})

\* config.get('database', {}).get('batch_size', 100)
DefaultBatchSize == 100

\* The values of database.batch_size the runs are configured with: the
\* default, and one smaller than a run's result list can get.
BatchSizes == {2, DefaultBatchSize}

\* `for i in range(0, len(results), batch_size): batch = results[i:i + batch_size]`
Batches(res, size) ==
    [k \in 1..((Len(res) + size - 1) \div size) |->
        SubSeq(res, (k - 1) * size + 1,
               IF k * size < Len(res) THEN k * size ELSE Len(res))]

\* The session.commit() calls of one _save_results_to_db: one per
\* sub-batch, then the one that stores last_crawled_at.
NumCommits(res, size) == Len(Batches(res, size)) + 1

\* ScraperService._save_results_to_db (scraper_service.py): the rows and
\* last_crawled_at are added to one session and committed once, together
\* or not at all.
ScraperServiceSaveResultsToDb(res, size, fail_at) ==
    IF fail_at = 0
    THEN [committed |-> <<res>>, last_crawled |-> TRUE, raised |-> FALSE]
    ELSE [committed |-> <<>>, last_crawled |-> FALSE, raised |-> TRUE]

\* _save_results_to_db(search_request, results) where the fail_at-th commit
\* raises (0: none does): the sub-batches committed before it stay in the
\* store, session.rollback() discards only the pending one, and the
\* exception is re-raised.
SaveResultsToDb(res, size, fail_at) ==
    IF fail_at = 0
    THEN [committed |-> Batches(res, size), last_crawled |-> TRUE, raised |-> FALSE]
    ELSE [committed |-> SubSeq(Batches(res, size), 1, fail_at - 1),
          last_crawled |-> FALSE, raised |-> TRUE]

\* The state when scrape_with_concurrency is entered, database.batch_size
\* being one of `sizes`.
RunStartWith(sizes) ==
    /\ \E en \in [1..Len(SiteNames) -> BOOLEAN] :
         target_sites = [i \in 1..Len(SiteNames) |->
                            [name |-> SiteNames[i], enabled |-> en[i]]]
    /\ main_pc = "submit"
    /\ work_queue = <<>>
    /\ running = {}
    /\ task_pc = [r \in RequestIds |-> "new"]
    /\ driver = [r \in RequestIds |-> "none"]
    /\ quit_calls = [r \in RequestIds |-> 0]
    /\ site_idx = [r \in RequestIds |-> 0]
    /\ site_log = [r \in RequestIds |-> <<>>]
    /\ all_results = [r \in RequestIds |-> <<>>]
    /\ future = [r \in RequestIds |-> Pending]
    /\ scrape_runs = [r \in RequestIds |-> 0]
    /\ results = <<>>
    /\ db_prices = [r \in RequestIds |-> <<>>]
    /\ last_crawled = [r \in RequestIds |-> FALSE]
    /\ batch_size \in sizes
    /\ acquire = [r \in RequestIds |-> NotAcquired]

\* Entered with the default configuration of the database section.
RunStart == RunStartWith({DefaultBatchSize})

RunOff ==
    /\ target_sites = <<>>
    /\ main_pc = "off"
    /\ work_queue = <<>>
    /\ running = {}
    /\ task_pc = [r \in RequestIds |-> "new"]
    /\ driver = [r \in RequestIds |-> "none"]
    /\ quit_calls = [r \in RequestIds |-> 0]
    /\ site_idx = [r \in RequestIds |-> 0]
    /\ site_log = [r \in RequestIds |-> <<>>]
    /\ all_results = [r \in RequestIds |-> <<>>]
    /\ future = [r \in RequestIds |-> Pending]
    /\ scrape_runs = [r \in RequestIds |-> 0]
    /\ results = <<>>
    /\ db_prices = [r \in RequestIds |-> <<>>]
    /\ last_crawled = [r \in RequestIds |-> FALSE]
    /\ batch_size = DefaultBatchSize
    /\ acquire = [r \in RequestIds |-> NotAcquired]

\* executor.submit(self.scrape_single_request, request, app_config), in list order.
Submit(r) ==
    /\ main_pc = "submit"
    /\ task_pc[r] = "new"
    /\ \A q \in RequestIds : q < r => task_pc[q] # "new"
    /\ task_pc' = [task_pc EXCEPT ![r] = "queued"]
    /\ work_queue' = Append(work_queue, r)
    /\ main_pc' = IF \A q \in RequestIds : q <= r THEN "collect" ELSE "submit"
    /\ UNCHANGED <<target_sites, acquire, running, driver, quit_calls, site_idx, site_log,
                   all_results, future, scrape_runs, results, db_prices, last_crawled, batch_size>>
    /\ UNCHANGED <<fetchVars, schedVars, monVars, helperVars>>

\* A pool thread is free to take the next work item.
WorkerAvailable(busy) == Cardinality(busy) < MaxWorkers

\* A pool whose thread is lost with the work item it ran.
WorkerDoneLeak(busy, r) == busy

\* The pool's bookkeeping when a work item has run to its end: its thread
\* is free for the next queued item.
WorkerDone(busy, r) == busy \ {r}

\* A pool thread takes the oldest queued request and calls scrape_single_request.
StartScrape(r) ==
    /\ work_queue # <<>>
    /\ r = Head(work_queue)
    /\ WorkerAvailable(running)
    /\ work_queue' = Tail(work_queue)
    /\ running' = running \cup {r}
    /\ task_pc' = [task_pc EXCEPT ![r] = "acquire"]
    /\ scrape_runs' = [scrape_runs EXCEPT ![r] = @ + 1]
    /\ UNCHANGED <<target_sites, acquire, main_pc, driver, quit_calls, site_idx, site_log,
                   all_results, future, results, db_prices, last_crawled, batch_size>>
    /\ UNCHANGED <<fetchVars, schedVars, monVars, helperVars>>

\* driver = self.get_webdriver(); `if not driver: logger.error(...);
\* return []`.
GetWebdriver(r) ==
    /\ task_pc[r] = "acquire"
    /\ \E path \in AcquirePaths :
         /\ acquire' = [acquire EXCEPT ![r] = [path |-> path, errors |-> AcquireErrors(path)]]
         /\ IF path = "ok"
            THEN /\ driver' = [driver EXCEPT ![r] = "open"]
                 /\ site_idx' = [site_idx EXCEPT ![r] = 1]
                 /\ task_pc' = [task_pc EXCEPT ![r] = "sites"]
                 /\ UNCHANGED <<future, running>>
            ELSE /\ task_pc' = [task_pc EXCEPT ![r] = "done"]
                 /\ future' = [future EXCEPT ![r] = [state |-> "returned", value |-> <<>>]]
                 /\ running' = WorkerDone(running, r)
                 /\ UNCHANGED <<driver, site_idx>>
    /\ UNCHANGED <<target_sites, main_pc, work_queue, quit_calls, site_log,
                   all_results, scrape_runs, results, db_prices, last_crawled, batch_size>>
    /\ UNCHANGED <<fetchVars, schedVars, monVars, helperVars>>

\* A failing visit without the handlers that contain it: the loop is left.
NextSiteAbort(i, outcome) == IF SiteFailed(outcome) THEN Len(SiteNames) + 1 ELSE i + 1

\* A loop that visits a site again after its visit failed.
NextSiteRetry(i, outcome) == IF SiteFailed(outcome) THEN i ELSE i + 1

\* Where the for-loop goes after visiting the site at position i: the
\* failure of a visit is caught (in _scrape_site_enhanced, and again by the
\* loop's own `except Exception: ... continue`), so always to the next site.
NextSite(i, outcome) == i + 1

\* One iteration of `for site_config in target_sites`: a disabled site is
\* skipped; an enabled one is scraped and its results extend all_results.
\* An exception inside the iteration is caught and the loop continues.
ScrapeNextSite(r) ==
    /\ task_pc[r] = "sites"
    /\ site_idx[r] <= Len(target_sites)
    /\ LET cfg == target_sites[site_idx[r]] IN
         IF ~cfg.enabled
         THEN /\ site_idx' = [site_idx EXCEPT ![r] = @ + 1]
              /\ UNCHANGED <<site_log, all_results>>
         ELSE \E o \in SiteOutcomes(cfg.name), cards \in 0..MaxCards :
                /\ (o = "parsed") = (cards > 0)
                /\ site_log' = [site_log EXCEPT ![r] =
                       Append(@, [site |-> cfg.name, outcome |-> o, cards |-> cards])]
                /\ all_results' = [all_results EXCEPT ![r] =
                       @ \o ScrapeSiteEnhanced(cfg.name, o, cards)]
                /\ site_idx' = [site_idx EXCEPT ![r] = NextSite(@, o)]
    /\ UNCHANGED <<target_sites, acquire, main_pc, work_queue, running, task_pc, driver,
                   quit_calls, future, scrape_runs, results, db_prices, last_crawled, batch_size>>
    /\ UNCHANGED <<fetchVars, schedVars, monVars, helperVars>>

\* The end of the loop without the `finally` clause: the session stays open.
DriverQuitSkipped(r) ==
    /\ task_pc[r] = "sites"
    /\ site_idx[r] > Len(target_sites)
    /\ task_pc' = [task_pc EXCEPT ![r] = "save"]
    /\ UNCHANGED <<target_sites, acquire, main_pc, work_queue, running, site_idx, site_log,
                   all_results, future, scrape_runs, results, db_prices, last_crawled, batch_size,
                   driver, quit_calls>>
    /\ UNCHANGED <<fetchVars, schedVars, monVars, helperVars>>

\* The loop is over: `finally: driver.quit()`.
DriverQuit(r) ==
    /\ task_pc[r] = "sites"
    /\ site_idx[r] > Len(target_sites)
    /\ driver' = [driver EXCEPT ![r] = "quit"]
    /\ quit_calls' = [quit_calls EXCEPT ![r] = @ + 1]
    /\ task_pc' = [task_pc EXCEPT ![r] = "save"]
    /\ UNCHANGED <<target_sites, acquire, main_pc, work_queue, running, site_idx, site_log,
                   all_results, future, scrape_runs, results, db_prices, last_crawled, batch_size>>
    /\ UNCHANGED <<fetchVars, schedVars, monVars, helperVars>>

\* A run that calls _save_results_to_db whatever it collected.
HasResultsAlways(res) == TRUE

\* `if all_results:` (a list is true when it is not empty)
HasResults(res) == res # <<>>

\* `if all_results: self._save_results_to_db(...)`, then `return all_results`.
\* A failing commit is rolled back and re-raised out of scrape_single_request.
SaveAndReturn(r) ==
    /\ task_pc[r] = "save"
    /\ IF ~HasResults(all_results[r])
       THEN /\ future' = [future EXCEPT ![r] = [state |-> "returned", value |-> <<>>]]
            /\ UNCHANGED <<db_prices, last_crawled>>
       ELSE \E fail_at \in 0..NumCommits(all_results[r], batch_size) :
              LET s == SaveResultsToDb(all_results[r], batch_size, fail_at) IN
                /\ db_prices' = [db_prices EXCEPT ![r] = @ \o s.committed]
                /\ last_crawled' = [last_crawled EXCEPT ![r] = s.last_crawled]
                /\ future' = [future EXCEPT ![r] =
                        IF s.raised THEN [state |-> "raised", value |-> <<>>]
                        ELSE [state |-> "returned", value |-> all_results[r]]]
    /\ task_pc' = [task_pc EXCEPT ![r] = "done"]
    /\ running' = WorkerDone(running, r)
    /\ UNCHANGED <<target_sites, acquire, main_pc, work_queue, driver, quit_calls, site_idx,
                   site_log, all_results, scrape_runs, results, batch_size>>
    /\ UNCHANGED <<fetchVars, schedVars, monVars, helperVars>>

\* The collecting loop without its try/except: the exception of a failed
\* request leaves scrape_with_concurrency.
HandleFutureNoExcept(f) ==
    IF f.state = "raised" THEN [main |-> "crashed", store |-> FALSE, entry |-> <<>>]
    ELSE [main |-> "collect", store |-> TRUE, entry |-> f.value]

\* The body of the collecting loop for a finished future: results[id] is
\* future.result(), or [] when that raises; the loop goes on either way.
HandleFuture(f) ==
    IF f.state = "raised" THEN [main |-> "collect", store |-> TRUE, entry |-> <<>>]
    ELSE [main |-> "collect", store |-> TRUE, entry |-> f.value]

\* `for future in as_completed(...)`: one finished future is collected.
Collect(r) ==
    /\ main_pc = "collect"
    /\ future[r].state # "pending"
    /\ r \notin DOMAIN results
    /\ LET h == HandleFuture(future[r]) IN
         /\ results' = IF h.store THEN results @@ (r :> h.entry) ELSE results
         /\ main_pc' = h.main
    /\ UNCHANGED <<target_sites, acquire, work_queue, running, task_pc, driver,
                   quit_calls, site_idx, site_log, all_results, future, scrape_runs,
                   db_prices, last_crawled, batch_size>>
    /\ UNCHANGED <<fetchVars, schedVars, monVars, helperVars>>

\* Every future has been yielded; leaving the `with` block joins the pool
\* threads (shutdown(wait=True)), then `return results`.
ReturnResults ==
    /\ main_pc = "collect"
    /\ \A r \in RequestIds : r \in DOMAIN results
    /\ running = {}
    /\ main_pc' = "returned"
    /\ UNCHANGED <<target_sites, acquire, work_queue, running, task_pc, driver, quit_calls,
                   site_idx, site_log, all_results, future, scrape_runs, results,
                   db_prices, last_crawled, batch_size>>
    /\ UNCHANGED <<fetchVars, schedVars, monVars, helperVars>>

RunNext ==
    \/ \E r \in RequestIds : Submit(r)
    \/ \E r \in RequestIds : StartScrape(r)
    \/ \E r \in RequestIds : GetWebdriver(r)
    \/ \E r \in RequestIds : ScrapeNextSite(r)
    \/ \E r \in RequestIds : DriverQuit(r)
    \/ \E r \in RequestIds : SaveAndReturn(r)
    \/ \E r \in RequestIds : Collect(r)
    \/ ReturnResults

-----------------------------------------------------------------------------
(* Job registry                                                            *)

\* The request ids the registry is exercised with.
SchedIds == {1, 2}

\* The clock stops advancing here.
MaxTime == 2

\* The values crawl_interval_hours takes (2 is the default).
IntervalChoices == {1, 2}

\* Who runs job_wrapper: the scheduler's executor (a fired job), or the
\* caller of schedule_price_check(..., run_now=True), which calls it directly.
Callers == {"scheduler", "run_now"}

\* job_id = f'crawl_request_{search_request_id}'
JobId(id) == <<"crawl_request_", id>>

\* scheduler.get_job(job_id): the jobs of the store with that id (none: None).
GetJob(store, job_id) == {j \in store : j.id = job_id}

\* existing_job.reschedule(trigger='interval', hours=interval_hours): the job
\* gets a new interval trigger, and APScheduler computes its next run time
\* from that trigger: one interval after the time of the call.
Reschedule(job, hours, t) ==
    [job EXCEPT !.hours = hours, !.next_run_time = t + hours]

\* scheduler.add_job(func=job_wrapper, args=[id], trigger='interval',
\* hours=..., id=job_id, replace_existing=True)
AddJob(store, id, hours, t) ==
    {j \in store : j.id # JobId(id)}
        \cup {[id |-> JobId(id), args |-> id, hours |-> hours, next_run_time |-> t + hours]}

\* Adding a job on every call, without looking for the one that exists.
EnsureJobAlwaysAdds(store, id, hours, t) ==
    store \cup {[id |-> JobId(id), args |-> id, hours |-> hours, next_run_time |-> t + hours]}

\* schedule_price_check up to `if run_now`: update the job if get_job finds
\* it, add it otherwise.
EnsureJob(store, id, hours, t) ==
    LET existing_job == GetJob(store, JobId(id)) IN
    IF existing_job # {}
    THEN (store \ existing_job) \cup {Reschedule(j, hours, t) : j \in existing_job}
    ELSE AddJob(store, id, hours, t)

\* scheduler.remove_job(job_id): raises JobLookupError when there is no such job.
SchedulerRemoveJob(store, job_id) ==
    [store |-> {j \in store : j.id # job_id}, raised |-> GetJob(store, job_id) = {}]

\* Removing without get_job and without the try/except: the scheduler's
\* JobLookupError for an absent job reaches the caller.
RemoveScheduledJobUnguarded(store, id) == SchedulerRemoveJob(store, JobId(id))

\* remove_scheduled_job: remove the job if get_job finds it; any exception
\* is caught and logged.
RemoveScheduledJob(store, id) ==
    LET job_id == JobId(id)
        r == IF GetJob(store, job_id) # {}
             THEN SchedulerRemoveJob(store, job_id)
             ELSE [store |-> store, raised |-> FALSE]
    IN  IF r.raised THEN [store |-> store, raised |-> FALSE] ELSE r

\* The scheduler's next run time of a fired interval job: the first
\* multiple of the interval after the due time that lies in the future.
RECURSIVE NextFireTime(_, _, _)
NextFireTime(prev, hours, t) ==
    IF prev + hours > t THEN prev + hours ELSE NextFireTime(prev + hours, hours, t)

\* job_wrapper's `except Exception as e: logger.error(...)` around the
\* scrape: whether an exception raised by the scrape leaves job_wrapper.
ScrapeErrorEscapes(raised) == FALSE

\* job_wrapper leaving the job of a missing request in place.
JobWrapperKeepsOrphan(store, request, id) ==
    CASE request = "tracking" ->
             [store |-> store, pc |-> "scraping", branch |-> "scrape", raised |-> FALSE]
      [] request = "absent" ->
             [store |-> store, pc |-> "idle", branch |-> "not_found", raised |-> FALSE]
      [] request = "paused" ->
             [store |-> store, pc |-> "idle", branch |-> "skip", raised |-> FALSE]

\* job_wrapper removing the job as soon as tracking is found disabled (the
\* call the source keeps commented out).
JobWrapperRemovesPaused(store, request, id) ==
    CASE request = "tracking" ->
             [store |-> store, pc |-> "scraping", branch |-> "scrape", raised |-> FALSE]
      [] request = "absent" ->
             [store |-> RemoveScheduledJob(store, id).store, pc |-> "idle",
              branch |-> "not_found", raised |-> RemoveScheduledJob(store, id).raised]
      [] request = "paused" ->
             [store |-> RemoveScheduledJob(store, id).store, pc |-> "idle",
              branch |-> "skip", raised |-> FALSE]

\* job_wrapper(search_request_id) up to the point where the scrape is under
\* way: the request is looked up; if it is there and tracked the scrape is
\* called ("scrape"); if it is not there the job is removed ("not_found");
\* if tracking is off nothing is done ("skip").
JobWrapper(store, request, id) ==
    CASE request = "tracking" ->
             [store |-> store, pc |-> "scraping", branch |-> "scrape", raised |-> FALSE]
      [] request = "absent" ->
             [store |-> RemoveScheduledJob(store, id).store, pc |-> "idle",
              branch |-> "not_found", raised |-> RemoveScheduledJob(store, id).raised]
      [] request = "paused" ->
             [store |-> store, pc |-> "idle", branch |-> "skip", raised |-> FALSE]

Op(op, id, branch, flag) == [op |-> op, id |-> id, branch |-> branch, flag |-> flag]

\* `for sr in active_searches: schedule_price_check(sr.id)`
RECURSIVE EnsureAll(_, _, _, _)
EnsureAll(store, ids, hours, t) ==
    IF ids = {} THEN store
    ELSE LET id == CHOOSE x \in ids : TRUE
         IN  EnsureAll(EnsureJob(store, id, hours, t), ids \ {id}, hours, t)

\* reschedule_all_active_jobs(): one schedule_price_check per request with
\* is_tracking set.
RescheduleAllActiveJobs(store, requests, hours, t) ==
    EnsureAll(store, {id \in SchedIds : requests[id] = "tracking"}, hours, t)

\* The registry create_app leaves behind: the module-level
\* BackgroundScheduler has the default in-memory job store, the call
\* `reschedule_all_active_jobs()` is commented out, and scheduler.start()
\* adds no job.
CreateApp(requests, hours, t) == {}

\* The state when create_app has returned; the SearchRequest rows are
\* whatever the database file holds.
SchedStart ==
    /\ now = 0
    /\ crawl_interval_hours \in IntervalChoices
    /\ search_requests \in [SchedIds -> {"tracking", "paused", "absent"}]
    /\ jobs = CreateApp(search_requests, crawl_interval_hours, now)
    /\ wrapper_pc = [c \in Callers \X SchedIds |-> "idle"]
    /\ escaped = {}
    /\ last_op = Op("init", 0, "none", FALSE)

SchedOff ==
    /\ jobs = {}
    /\ now = 0
    /\ crawl_interval_hours = 2
    /\ search_requests = [id \in SchedIds |-> "absent"]
    /\ wrapper_pc = [c \in Callers \X SchedIds |-> "off"]
    /\ escaped = {}
    /\ last_op = Op("off", 0, "none", FALSE)

\* schedule_price_check(search_request_id, run_now): ensure the job, then,
\* with run_now, call job_wrapper in the caller's thread. flag: a job
\* existed with another interval.
SchedulePriceCheck(id, run_now) ==
    /\ run_now => wrapper_pc[<<"run_now", id>>] = "idle"
    /\ LET ensured == EnsureJob(jobs, id, crawl_interval_hours, now)
           differs == \E j \in GetJob(jobs, JobId(id)) : j.hours # crawl_interval_hours
           w == JobWrapper(ensured, search_requests[id], id)
       IN IF run_now
          THEN /\ jobs' = w.store
               /\ wrapper_pc' = [wrapper_pc EXCEPT ![<<"run_now", id>>] = w.pc]
               /\ escaped' = IF w.raised THEN escaped \cup {<<"run_now", id>>} ELSE escaped
               /\ last_op' = Op("run_now", id, w.branch, differs)
          ELSE /\ jobs' = ensured
               /\ last_op' = Op("ensure", id, "none", differs)
               /\ UNCHANGED <<wrapper_pc, escaped>>
    /\ UNCHANGED <<now, crawl_interval_hours, search_requests>>
    /\ UNCHANGED <<fetchVars, runVars, monVars, helperVars>>

\* remove_scheduled_job(search_request_id) called from outside a job.
\* flag: a job existed.
RemoveJob(id) ==
    /\ LET r == RemoveScheduledJob(jobs, id) IN
         /\ jobs' = r.store
         /\ escaped' = IF r.raised THEN escaped \cup {<<"remove", id>>} ELSE escaped
    /\ last_op' = Op("remove", id, "none", GetJob(jobs, JobId(id)) # {})
    /\ UNCHANGED <<now, crawl_interval_hours, search_requests, wrapper_pc>>
    /\ UNCHANGED <<fetchVars, runVars, monVars, helperVars>>

\* The scheduler finds job j due. It moves the job's next run time and has
\* its executor run job_wrapper(*j.args), unless the previous run of the job
\* is still going (APScheduler runs at most one instance of a job: "busy").
Fire(j) ==
    /\ j \in jobs
    /\ j.next_run_time <= now
    /\ LET c == <<"scheduler", j.args>>
           moved == (jobs \ {j}) \cup
                      {[j EXCEPT !.next_run_time = NextFireTime(j.next_run_time, j.hours, now)]}
           w == JobWrapper(moved, search_requests[j.args], j.args)
       IN IF wrapper_pc[c] = "idle"
          THEN /\ jobs' = w.store
               /\ wrapper_pc' = [wrapper_pc EXCEPT ![c] = w.pc]
               /\ escaped' = IF w.raised THEN escaped \cup {c} ELSE escaped
               /\ last_op' = Op("fire", j.args, w.branch, FALSE)
          ELSE /\ jobs' = moved
               /\ last_op' = Op("fire", j.args, "busy", FALSE)
               /\ UNCHANGED <<wrapper_pc, escaped>>
    /\ UNCHANGED <<now, crawl_interval_hours, search_requests>>
    /\ UNCHANGED <<fetchVars, runVars, monVars, helperVars>>

\* scrape_prices_for_request returns or raises inside job_wrapper's try,
\* and job_wrapper ends. flag: it raised.
WrapperScrapeEnd(c, id) ==
    /\ wrapper_pc[<<c, id>>] = "scraping"
    /\ \E raised \in BOOLEAN :
         /\ escaped' = IF ScrapeErrorEscapes(raised)
                       THEN escaped \cup {<<c, id>>} ELSE escaped
         /\ last_op' = Op("scrape_end", id, "none", raised)
    /\ wrapper_pc' = [wrapper_pc EXCEPT ![<<c, id>>] = "idle"]
    /\ UNCHANGED <<jobs, now, crawl_interval_hours, search_requests>>
    /\ UNCHANGED <<fetchVars, runVars, monVars, helperVars>>

\* routes.toggle_tracking: is_tracking = not is_tracking; the registry is not told.
ToggleTracking(id) ==
    /\ search_requests[id] # "absent"
    /\ search_requests' = [search_requests EXCEPT ![id] =
                              IF @ = "tracking" THEN "paused" ELSE "tracking"]
    /\ last_op' = Op("other", 0, "none", FALSE)
    /\ UNCHANGED <<jobs, now, crawl_interval_hours, wrapper_pc, escaped>>
    /\ UNCHANGED <<fetchVars, runVars, monVars, helperVars>>

\* routes.delete_search: the row is deleted; the registry is not told.
DeleteSearch(id) ==
    /\ search_requests[id] # "absent"
    /\ search_requests' = [search_requests EXCEPT ![id] = "absent"]
    /\ last_op' = Op("other", 0, "none", FALSE)
    /\ UNCHANGED <<jobs, now, crawl_interval_hours, wrapper_pc, escaped>>
    /\ UNCHANGED <<fetchVars, runVars, monVars, helperVars>>

\* The configured interval changes (another settings file is loaded).
SetInterval(h) ==
    /\ h # crawl_interval_hours
    /\ crawl_interval_hours' = h
    /\ last_op' = Op("other", 0, "none", FALSE)
    /\ UNCHANGED <<jobs, now, search_requests, wrapper_pc, escaped>>
    /\ UNCHANGED <<fetchVars, runVars, monVars, helperVars>>

\* An hour passes.
Tick ==
    /\ now < MaxTime
    /\ now' = now + 1
    /\ last_op' = Op("other", 0, "none", FALSE)
    /\ UNCHANGED <<jobs, crawl_interval_hours, search_requests, wrapper_pc, escaped>>
    /\ UNCHANGED <<fetchVars, runVars, monVars, helperVars>>

SchedNext ==
    \/ \E id \in SchedIds, run_now \in BOOLEAN : SchedulePriceCheck(id, run_now)
    \/ \E id \in SchedIds : RemoveJob(id)
    \/ \E j \in jobs : Fire(j)
    \/ \E c \in Callers, id \in SchedIds : WrapperScrapeEnd(c, id)
    \/ \E id \in SchedIds : ToggleTracking(id)
    \/ \E id \in SchedIds : DeleteSearch(id)
    \/ \E h \in IntervalChoices : SetInterval(h)
    \/ Tick

-----------------------------------------------------------------------------
(* Monitoring: the recorder                                                *)

\* Sites the recorded attempts belong to.
MonSites == {"Agoda", "Booking.com"}

\* Threads that call record_metrics (the orchestrator's pool threads).
MonWorkers == {1, 2}

\* PerformanceMonitor(max_history): the maxlen of metrics_history.
MaxHistory == 2

\* Number of record_metrics calls a behaviour makes at most.
MaxRecords == 10

\* ScrapingMetrics, without the timestamps and results_count;
\* request_id 0 stands for None.
Metrics(site, duration, success, request_id) ==
    [site_name |-> site, duration |-> duration, success |-> success,
     request_id |-> request_id]

\* The records the pool threads hand to record_metrics.
RecordInputs ==
    {Metrics(site, 2, ok, 0) : site \in MonSites, ok \in BOOLEAN}

\* The default factory of site_stats (the counters; last_success and
\* last_error are timestamps no decision reads).
ZeroStats ==
    [total_requests |-> 0, successful_requests |-> 0, failed_requests |-> 0,
     total_duration |-> 0]

\* self.site_stats[site_name] on the defaultdict: the value read ...
StatsOf(d, site) == IF site \in DOMAIN d THEN d[site] ELSE ZeroStats

\* ... and the dict afterwards: a missing key is inserted with the default.
Touch(d, site) == IF site \in DOMAIN d THEN d ELSE d @@ (site :> ZeroStats)

\* A bounded buffer that refuses the new element when it is full.
DequeAppendKeepOldest(h, x, n) == IF Len(h) < n THEN Append(h, x) ELSE h

\* deque(maxlen=n).append(x): a full deque drops its oldest element.
DequeAppend(h, x, n) == IF Len(h) < n THEN Append(h, x) ELSE Append(Tail(h), x)

\* Counting every record as a success.
UpdateStatsAllSuccess(read, m) ==
    [total_requests |-> read.total_requests + 1,
     successful_requests |-> read.successful_requests + 1,
     failed_requests |-> read.failed_requests,
     total_duration |-> read.total_duration + m.duration]

\* The counters record_metrics stores, from the counters it read.
UpdateStats(read, m) ==
    [total_requests |-> read.total_requests + 1,
     successful_requests |-> read.successful_requests + (IF m.success THEN 1 ELSE 0),
     failed_requests |-> read.failed_requests + (IF m.success THEN 0 ELSE 1),
     total_duration |-> read.total_duration + m.duration]

Rat(n, d) == [num |-> n, den |-> d]
RatLess(a, b) == a.num * b.den < b.num * a.den
RatEq(a, b) == a.num * b.den = b.num * a.den

\* get_site_statistics(site_name): a copy of the counters with the derived
\* rates (quotients, kept as fractions), and the dict after the lookup.
GetSiteStatistics(d, site) ==
    LET st == StatsOf(d, site) IN
    [dict |-> Touch(d, site),
     stats |-> [total_requests |-> st.total_requests,
                successful_requests |-> st.successful_requests,
                failed_requests |-> st.failed_requests,
                total_duration |-> st.total_duration,
                success_rate |-> IF st.total_requests > 0
                                 THEN Rat(st.successful_requests, st.total_requests)
                                 ELSE Rat(0, 1),
                average_duration |-> IF st.total_requests > 0
                                     THEN Rat(st.total_duration, st.total_requests)
                                     ELSE Rat(0, 1)]]

\* A thread entering `with self._lock:` goes on without the lock.
CanAcquireUnlocked(lock) == TRUE

\* `with self._lock:` can be entered when no thread holds the lock.
CanAcquire(lock) == lock = 0

IdleWorker == [pc |-> "idle"]

\* record_metrics calls begun so far: the ones that returned and the ones
\* under way.
RecordsBegun ==
    LET RECURSIVE Sum(_)
        Sum(S) == IF S = {} THEN 0
                  ELSE LET x == CHOOSE y \in S : TRUE IN mon_calls[x].n + Sum(S \ {x})
    IN Sum(MonSites) + Cardinality({w \in MonWorkers : mon_local[w].pc # "idle"})

MonLast(op, site, sent, suppressed) ==
    [op |-> op, site |-> site, sent |-> sent, suppressed |-> suppressed]

alertVars == <<alert_history, last_alert_times, dispatched, notify_config,
               sink_calls, sink_errors>>
scanVars == <<scan_pc, current_time, scan_keys, scan_todo, mon_now>>
snapVars == <<snap_pc, snap_todo, snap_returns, track_last>>

\* A thread calls record_metrics(metrics) and arrives at `with self._lock:`.
RecordCall(w, m, max) ==
    /\ mon_local[w].pc = "idle"
    /\ RecordsBegun < max
    /\ mon_local' = [mon_local EXCEPT ![w] = [pc |-> "waiting", m |-> m, read |-> ZeroStats]]
    /\ mon_last' = MonLast("call", m.site_name, {}, {})
    /\ UNCHANGED <<stats_lock, metrics_history, site_stats, mon_calls, alertVars, scanVars>>
    /\ UNCHANGED <<fetchVars, runVars, schedVars, snapVars, helperVars>>

\* record_metrics, first half: the lock is taken, the record is appended
\* to the history and the site's counters are read.
RecordBegin(w) ==
    /\ mon_local[w].pc = "waiting"
    /\ CanAcquire(stats_lock)
    /\ stats_lock' = w
    /\ LET m == mon_local[w].m IN
         /\ metrics_history' = DequeAppend(metrics_history, m, MaxHistory)
         /\ site_stats' = Touch(site_stats, m.site_name)
         /\ mon_local' = [mon_local EXCEPT ![w] =
                             [pc |-> "in", m |-> m, read |-> StatsOf(site_stats, m.site_name)]]
         /\ mon_last' = MonLast("record", m.site_name, {}, {})
    /\ UNCHANGED <<mon_calls, alertVars, scanVars>>
    /\ UNCHANGED <<fetchVars, runVars, schedVars, snapVars, helperVars>>

\* record_metrics, second half: the counters are stored and the lock is
\* released.
RecordFinish(w) ==
    /\ mon_local[w].pc = "in"
    /\ LET m == mon_local[w].m IN
         /\ site_stats' = [site_stats EXCEPT ![m.site_name] = UpdateStats(mon_local[w].read, m)]
         /\ mon_calls' = [mon_calls EXCEPT ![m.site_name] =
                             [n |-> @.n + 1, ok |-> @.ok + (IF m.success THEN 1 ELSE 0),
                              dur |-> @.dur + m.duration]]
         /\ mon_last' = MonLast("recorded", m.site_name, {}, {})
    /\ stats_lock' = 0
    /\ mon_local' = [mon_local EXCEPT ![w] = IdleWorker]
    /\ UNCHANGED <<metrics_history, alertVars, scanVars>>
    /\ UNCHANGED <<fetchVars, runVars, schedVars, snapVars, helperVars>>

-----------------------------------------------------------------------------
(* Monitoring: the alert scanner                                           *)

\* self.min_alert_interval = 300
MinAlertInterval == 300

\* `if stats['total_requests'] >= 5`
MinAttempts == 5

\* alert_thresholds.error_rate, default 0.1
ErrorRateThreshold == Rat(1, 10)

\* alert_thresholds.response_time, default 30
ResponseTimeThreshold == 30

\* self.alert_history = deque(maxlen=100)
AlertHistoryMax == 100

AlertTypes == {"low_success_rate", "slow_response"}

\* time.time() when the behaviour begins: far above min_alert_interval.
StartTime == MinAlertInterval + MinAlertInterval

\* The seconds that pass between the starts of two scans.
TimeSteps == {150, 300}

\* The scans of a behaviour start within this many seconds.
MaxElapsed == 600

\* Keying the cooldown by the site alone.
AlertKeyBySite(type, site) == <<"alert", site>>

\* alert_key = f"{alert_type}_{site_name}"
AlertKey(type, site) == <<type, site>>

\* self.last_alert_times.get(alert_key, 0)
LastAlertTime(d, key) == IF key \in DOMAIN d THEN d[key] ELSE 0

\* The notification sinks, in the order _send_notification goes through them.
Sinks == <<"email", "discord">>

\* _send_notification without its try/except: the error of a sink leaves it.
SendNotificationNoExcept(enabled, fails) ==
    LET email == Sinks[1] \in enabled
        discord == Sinks[2] \in enabled /\ ~(email /\ Sinks[1] \in fails)
        called == {k \in {Sinks[1]} : email} \cup {k \in {Sinks[2]} : discord}
    IN [called |-> called, logged |-> FALSE, raised |-> called \cap fails # {}]

\* _send_notification(alert_data) with the sinks in `enabled` configured
\* and the sinks in `fails` raising when they are called: the sinks it
\* called, whether it logged an error, and whether an exception left it.
\* Both sinks are called inside one try block.
SendNotification(enabled, fails) ==
    LET email == Sinks[1] \in enabled
        discord == Sinks[2] \in enabled /\ ~(email /\ Sinks[1] \in fails)
        called == {k \in {Sinks[1]} : email} \cup {k \in {Sinks[2]} : discord}
    IN [called |-> called, logged |-> called \cap fails # {}, raised |-> FALSE]

\* _send_alert(alert_type, message, site_name, current_time) on the alert
\* state a = [history, last, dispatched, config, calls, errors, raised]:
\* nothing inside the cooldown; otherwise the time is stored, the alert
\* appended and _send_notification called.
SendAlert(a, type, site, t, fails) ==
    LET key == AlertKey(type, site)
        n == SendNotification(a.config, fails)
    IN
    IF t - LastAlertTime(a.last, key) < MinAlertInterval
    THEN a
    ELSE [a EXCEPT !.history = DequeAppend(a.history,
                                   [type |-> type, site_name |-> site, time |-> t],
                                   AlertHistoryMax),
                   !.last = (key :> t) @@ a.last,
                   !.dispatched = a.dispatched + 1,
                   !.calls = [k \in DOMAIN a.calls |->
                                 a.calls[k] + (IF k \in n.called THEN 1 ELSE 0)],
                   !.errors = a.errors + (IF n.logged THEN 1 ELSE 0),
                   !.raised = n.raised]

\* `if stats['total_requests'] >= 5:` ... `if success_rate < (1 - threshold)`
LowSuccessRate(stats) ==
    /\ stats.total_requests >= MinAttempts
    /\ RatLess(stats.success_rate,
               Rat(ErrorRateThreshold.den - ErrorRateThreshold.num, ErrorRateThreshold.den))

\* `if avg_duration > response_time_threshold`, which the code evaluates
\* for every site, outside the test on total_requests.
SlowResponse(stats) == RatLess(Rat(ResponseTimeThreshold, 1), stats.average_duration)

Breaches(stats) ==
    {ty \in AlertTypes : \/ ty = "low_success_rate" /\ LowSuccessRate(stats)
                         \/ ty = "slow_response" /\ SlowResponse(stats)}

\* The body of the scan's for-loop for one site; an exception that leaves
\* the first _send_alert leaves the loop.
CheckSite(a, stats, site, t, fails) ==
    LET a1 == IF LowSuccessRate(stats)
              THEN SendAlert(a, "low_success_rate", site, t, fails) ELSE a
    IN  IF SlowResponse(stats) /\ ~a1.raised
        THEN SendAlert(a1, "slow_response", site, t, fails) ELSE a1

\* check_and_send_alerts begins: current_time = time.time(), and the
\* iteration over monitor.site_stats starts.
ScanStart(dt) ==
    /\ scan_pc = "idle"
    /\ mon_now + dt <= StartTime + MaxElapsed
    /\ mon_now' = mon_now + dt
    /\ current_time' = mon_now + dt
    /\ scan_keys' = DOMAIN site_stats
    /\ scan_todo' = DOMAIN site_stats
    /\ scan_pc' = "scanning"
    /\ mon_last' = MonLast("scan_start", "", {}, {})
    /\ UNCHANGED <<stats_lock, metrics_history, site_stats, mon_local, mon_calls, alertVars>>
    /\ UNCHANGED <<fetchVars, runVars, schedVars, snapVars, helperVars>>

\* One iteration: get_site_statistics (under the lock), the two tests and
\* the alerts they send, with the sinks in `fails` raising when called. An
\* exception that leaves the iteration ends the scan.
ScanSite(site, fails) ==
    /\ scan_pc = "scanning"
    /\ site \in scan_todo
    /\ DOMAIN site_stats = scan_keys
    /\ CanAcquire(stats_lock)
    /\ LET g == GetSiteStatistics(site_stats, site)
           a == CheckSite([history |-> alert_history, last |-> last_alert_times,
                           dispatched |-> dispatched, config |-> notify_config,
                           calls |-> sink_calls, errors |-> sink_errors,
                           raised |-> FALSE], g.stats, site, current_time, fails)
           sent == {ty \in AlertTypes :
                       LastAlertTime(a.last, AlertKey(ty, site)) = current_time}
       IN /\ site_stats' = g.dict
          /\ alert_history' = a.history
          /\ last_alert_times' = a.last
          /\ dispatched' = a.dispatched
          /\ sink_calls' = a.calls
          /\ sink_errors' = a.errors
          /\ scan_pc' = IF a.raised THEN "idle" ELSE "scanning"
          /\ scan_todo' = IF a.raised THEN {} ELSE scan_todo \ {site}
          /\ mon_last' = MonLast(IF a.raised THEN "sink_error" ELSE "scan_site",
                                 site, sent, Breaches(g.stats) \ sent)
    /\ UNCHANGED <<stats_lock, metrics_history, mon_local, mon_calls, notify_config,
                   current_time, scan_keys, mon_now>>
    /\ UNCHANGED <<fetchVars, runVars, schedVars, snapVars, helperVars>>

\* The dict got a new key while the scan iterates over it: the iterator
\* raises RuntimeError, which leaves check_and_send_alerts.
ScanAbort ==
    /\ scan_pc = "scanning"
    /\ DOMAIN site_stats # scan_keys
    /\ scan_pc' = "idle"
    /\ scan_todo' = {}
    /\ mon_last' = MonLast("scan_error", "", {}, {})
    /\ UNCHANGED <<stats_lock, metrics_history, site_stats, mon_local, mon_calls,
                   alertVars, current_time, scan_keys, mon_now>>
    /\ UNCHANGED <<fetchVars, runVars, schedVars, snapVars, helperVars>>

\* The iteration is over.
ScanEnd ==
    /\ scan_pc = "scanning"
    /\ scan_todo = {}
    /\ DOMAIN site_stats = scan_keys
    /\ scan_pc' = "idle"
    /\ mon_last' = MonLast("scan_end", "", {}, {})
    /\ UNCHANGED <<stats_lock, metrics_history, site_stats, mon_local, mon_calls,
                   alertVars, current_time, scan_keys, scan_todo, mon_now>>
    /\ UNCHANGED <<fetchVars, runVars, schedVars, snapVars, helperVars>>

-----------------------------------------------------------------------------
(* Monitoring: the statistics snapshot                                     *)

\* The thread that calls get_overall_statistics (an exporter or the
\* dashboard), and a thread that calls is_site_healthy.
SnapThread == 3
HealthThread == 4

\* Number of record_metrics calls a behaviour with the snapshot makes at most.
MaxSnapRecords == 3

\* Number of get_overall_statistics calls a behaviour counts at most.
MaxSnapReturns == 2

\* get_overall_statistics is called (by get_prometheus_metrics,
\* export_to_json or get_monitoring_dashboard_data) and arrives at its
\* `with self._lock:`.
SnapshotCall ==
    /\ snap_pc = "idle"
    /\ snap_returns < MaxSnapReturns
    /\ snap_pc' = "waiting"
    /\ mon_last' = MonLast("snapshot_call", "", {}, {})
    /\ UNCHANGED <<stats_lock, metrics_history, site_stats, mon_local, mon_calls,
                   alertVars, scanVars, snap_todo, snap_returns, track_last>>
    /\ UNCHANGED <<fetchVars, runVars, schedVars, helperVars>>

\* get_overall_statistics takes the lock. With an empty history it returns
\* the zero snapshot, which releases the lock; otherwise it computes the
\* totals and starts its loop over site_stats, still holding the lock.
SnapshotBegin ==
    /\ snap_pc = "waiting"
    /\ CanAcquire(stats_lock)
    /\ IF metrics_history = <<>> \/ DOMAIN site_stats = {}
       THEN /\ stats_lock' = 0
            /\ snap_pc' = "idle"
            /\ snap_todo' = {}
            /\ snap_returns' = snap_returns + 1
            /\ mon_last' = MonLast("snapshot_return", "", {}, {})
       ELSE /\ stats_lock' = SnapThread
            /\ snap_pc' = "sites"
            /\ snap_todo' = DOMAIN site_stats
            /\ snap_returns' = snap_returns
            /\ mon_last' = MonLast("snapshot_begin", "", {}, {})
    /\ UNCHANGED <<metrics_history, site_stats, mon_local, mon_calls, alertVars, scanVars,
                   track_last>>
    /\ UNCHANGED <<fetchVars, runVars, schedVars, helperVars>>

\* get_site_statistics(site_name), called by thread t: by is_site_healthy,
\* or by the loop of get_overall_statistics for the next site. Its
\* `with self._lock:` is entered when no thread holds the lock
\* (threading.Lock is not reentrant). After its last site the loop of
\* get_overall_statistics ends and the snapshot returns.
SiteStatisticsRead(t, site) ==
    /\ t = SnapThread => snap_pc = "sites" /\ site \in snap_todo
    /\ CanAcquire(stats_lock)
    /\ site_stats' = GetSiteStatistics(site_stats, site).dict
    /\ IF t = SnapThread
       THEN /\ snap_todo' = snap_todo \ {site}
            /\ snap_pc' = IF snap_todo = {site} THEN "idle" ELSE "sites"
            /\ snap_returns' = snap_returns + (IF snap_todo = {site} THEN 1 ELSE 0)
       ELSE UNCHANGED <<snap_pc, snap_todo, snap_returns>>
    /\ stats_lock' = IF t = SnapThread /\ snap_todo # {site} THEN SnapThread ELSE 0
    /\ mon_last' = MonLast("site_statistics", site, {}, {})
    /\ UNCHANGED <<metrics_history, mon_local, mon_calls, alertVars, scanVars, track_last>>
    /\ UNCHANGED <<fetchVars, runVars, schedVars, helperVars>>

\* One thread recording attempts, one taking snapshots, one asking for the
\* health of a site, recorded or not.
SnapNext ==
    \/ \E m \in RecordInputs : RecordCall(1, m, MaxSnapRecords)
    \/ RecordBegin(1)
    \/ RecordFinish(1)
    \/ SnapshotCall
    \/ SnapshotBegin
    \/ \E t \in {SnapThread, HealthThread}, site \in MonSites :
           SiteStatisticsRead(t, site)

-----------------------------------------------------------------------------
(* Monitoring: the tracking handle                                         *)

\* How the body of a `with monitor.track_scraping(...)` statement can end:
\* it runs to its end (or leaves by return/break), it raises an exception
\* of class Exception, or it raises one that is not (KeyboardInterrupt,
\* SystemExit, GeneratorExit).
BodyExits == {"returned", "Exception", "BaseException"}

\* Number of record_metrics calls a behaviour of the handle makes at most.
MaxTrackRecords == 3

\* time.time() differences the handle can measure.
TrackDurations == {1, 2}

NotTracked == [thread |-> 0, body |-> "none", exit |-> [records |-> <<>>]]

\* track_scraping(site_name, request_id) around a body that ends as
\* `body`: `success` is bound by the statement after the yield or by the
\* `except Exception` clause, which also binds error_message, logs and
\* re-raises; the `finally` clause builds the ScrapingMetrics from
\* `success`, which raises UnboundLocalError when neither bound it, and
\* hands the record to record_metrics.
TrackScraping(site_name, request_id, duration, body) ==
    LET success == CASE body = "returned" -> "True"
                     [] body = "Exception" -> "False"
                     [] OTHER -> "unbound"
        error_message == IF body = "Exception" THEN "str(e)" ELSE "None"
    IN IF success = "unbound"
       THEN [records |-> <<>>, error_message |-> error_message,
             raised |-> "UnboundLocalError"]
       ELSE [records |-> <<Metrics(site_name, duration, success = "True", request_id)>>,
             error_message |-> error_message,
             raised |-> IF body = "returned" THEN "none" ELSE body]

\* Thread w, working on request w, leaves a `with track_scraping(site,
\* request_id)` block: the handle's clauses run and its record, if one was
\* built, arrives at the lock of record_metrics.
TrackScrapingExit(w, site, duration, body) ==
    /\ mon_local[w].pc = "idle"
    /\ RecordsBegun < MaxTrackRecords
    /\ LET t == TrackScraping(site, w, duration, body) IN
         /\ track_last' = [thread |-> w, body |-> body, exit |-> t]
         /\ mon_local' = IF t.records = <<>> THEN mon_local
                         ELSE [mon_local EXCEPT ![w] =
                                  [pc |-> "waiting", m |-> t.records[1], read |-> ZeroStats]]
    /\ mon_last' = MonLast("track", site, {}, {})
    /\ UNCHANGED <<stats_lock, metrics_history, site_stats, mon_calls, alertVars, scanVars,
                   snap_pc, snap_todo, snap_returns>>
    /\ UNCHANGED <<fetchVars, runVars, schedVars, helperVars>>

\* Pool threads leaving tracked blocks.
TrackNext ==
    \/ \E w \in MonWorkers, site \in MonSites, d \in TrackDurations, body \in BodyExits :
           TrackScrapingExit(w, site, d, body)
    \/ \E w \in MonWorkers : RecordBegin(w)
    \/ \E w \in MonWorkers : RecordFinish(w)

\* The module-level performance_monitor and a new AlertManager(config)
\* whose notification settings are one of `configs`.
MonStartWith(configs) ==
    /\ notify_config \in configs
    /\ stats_lock = 0
    /\ metrics_history = <<>>
    /\ site_stats = [site \in {} |-> ZeroStats]
    /\ mon_local = [w \in MonWorkers |-> IdleWorker]
    /\ mon_calls = [site \in MonSites |-> [n |-> 0, ok |-> 0, dur |-> 0]]
    /\ alert_history = <<>>
    /\ last_alert_times = [key \in {} |-> 0]
    /\ dispatched = 0
    /\ sink_calls = [k \in {Sinks[1], Sinks[2]} |-> 0]
    /\ sink_errors = 0
    /\ scan_pc = "idle"
    /\ current_time = 0
    /\ scan_keys = {}
    /\ scan_todo = {}
    /\ mon_now = StartTime
    /\ mon_last = MonLast("init", "", {}, {})
    /\ snap_pc = "idle"
    /\ snap_todo = {}
    /\ snap_returns = 0
    /\ track_last = NotTracked

\* No notification sink is enabled.
MonStart == MonStartWith({{}})

\* Nobody calls the monitor.
MonOff ==
    /\ notify_config = {}
    /\ stats_lock = 0
    /\ metrics_history = <<>>
    /\ site_stats = [site \in {} |-> ZeroStats]
    /\ mon_local = [w \in MonWorkers |-> IdleWorker]
    /\ mon_calls = [site \in MonSites |-> [n |-> 0, ok |-> 0, dur |-> 0]]
    /\ alert_history = <<>>
    /\ last_alert_times = [key \in {} |-> 0]
    /\ dispatched = 0
    /\ sink_calls = [k \in {Sinks[1], Sinks[2]} |-> 0]
    /\ sink_errors = 0
    /\ scan_pc = "off"
    /\ current_time = 0
    /\ scan_keys = {}
    /\ scan_todo = {}
    /\ mon_now = StartTime
    /\ mon_last = MonLast("off", "", {}, {})
    /\ snap_pc = "idle"
    /\ snap_todo = {}
    /\ snap_returns = 0
    /\ track_last = NotTracked

\* Pool threads recording attempts concurrently.
MonNext ==
    \/ \E w \in MonWorkers, m \in RecordInputs : RecordCall(w, m, MaxRecords)
    \/ \E w \in MonWorkers : RecordBegin(w)
    \/ \E w \in MonWorkers : RecordFinish(w)

\* Number of record_metrics calls a behaviour with the scanner makes at most.
MaxAlertRecords == 6

\* The records of the behaviours with the scanner: quick successes and slow
\* failures on one site, slow successes on the other.
AlertInputs ==
    {Metrics("Agoda", 1, TRUE, 0), Metrics("Agoda", 60, FALSE, 0),
     Metrics("Booking.com", 60, TRUE, 0)}

\* One thread recording attempts while the scanner thread scans.
AlertNext ==
    \/ \E m \in AlertInputs : RecordCall(1, m, MaxAlertRecords)
    \/ RecordBegin(1)
    \/ RecordFinish(1)
    \/ \E dt \in TimeSteps : ScanStart(dt)
    \/ \E site \in MonSites : ScanSite(site, {})
    \/ ScanAbort
    \/ ScanEnd

\* Number of record_metrics calls a behaviour with notification sinks makes
\* at most.
MaxNotifyRecords == 2

\* The scanner with notification sinks configured, each of which may fail
\* on any call.
NotifyNext ==
    \/ \E m \in AlertInputs : RecordCall(1, m, MaxNotifyRecords)
    \/ RecordBegin(1)
    \/ RecordFinish(1)
    \/ \E dt \in TimeSteps : ScanStart(dt)
    \/ \E site \in MonSites, fails \in SUBSET {Sinks[1], Sinks[2]} : ScanSite(site, fails)
    \/ ScanAbort
    \/ ScanEnd

-----------------------------------------------------------------------------
(* Helpers: the rate limiter                                               *)

\* RateLimiter(requests_per_minute)
RequestsPerMinute == 2

\* `if current_time - t < 60` and `60 - (current_time - oldest_request)`
RateWindow == 60

\* Number of wait_if_needed calls a behaviour makes at most.
MaxCalls == 5

\* Seconds between the return of one call and the next call.
CallGaps == {0, 1, 30}

\* random.uniform(1, 3), in whole seconds.
Jitter == {1, 2, 3}

\* wait_if_needed() called at time t with the jitter drawn: the list it
\* leaves and the time at which it returns. The time appended is the time
\* read on entry.
WaitIfNeededAt(times, t, jitter) ==
    LET kept == SelectSeq(times, LAMBDA x : t - x < RateWindow)
        oldest_request == CHOOSE x \in {kept[i] : i \in 1..Len(kept)} :
                              \A i \in 1..Len(kept) : x <= kept[i]
        wait_time == IF Len(kept) >= RequestsPerMinute
                     THEN RateWindow - (t - oldest_request) + jitter
                     ELSE 0
    IN [request_times |-> Append(kept, t),
        returns |-> IF wait_time > 0 THEN t + wait_time ELSE t]

\* A new RateLimiter, a new ProxyManager(config) whose pool is one of
\* `pools`, and the inputs of the price functions.
HelperStart(pools, texts, prices) ==
    /\ rl_now = 0
    /\ request_times = <<>>
    /\ admitted = <<>>
    /\ proxies \in pools
    /\ current_proxy_index = 0
    /\ failed_proxies = {}
    /\ proxy_last = [op |-> "init", value |-> "None", failed_before |-> {}]
    /\ price_text \in texts
    /\ price_in \in prices
    /\ price_last = [op |-> "none", result |-> [found |-> FALSE, price |-> Rat(0, 1),
                                                currency |-> "TWD", raised |-> FALSE],
                     valid |-> FALSE, stored |-> FALSE]

\* No proxy is configured.
HelperOff == HelperStart({<<>>}, {<<>>}, {[price |-> Rat(0, 1), currency |-> "TWD"]})

\* The next sequential call of wait_if_needed, `gap` seconds after the
\* previous one returned.
WaitIfNeeded(gap, jitter) ==
    /\ Len(admitted) < MaxCalls
    /\ LET w == WaitIfNeededAt(request_times, rl_now + gap, jitter) IN
         /\ request_times' = w.request_times
         /\ admitted' = Append(admitted, w.returns)
         /\ rl_now' = w.returns
    /\ UNCHANGED <<proxies, current_proxy_index, failed_proxies, proxy_last,
                   price_text, price_in, price_last>>
    /\ UNCHANGED <<fetchVars, runVars, schedVars, monVars>>

LimiterNext == \E gap \in CallGaps, jitter \in Jitter : WaitIfNeeded(gap, jitter)

-----------------------------------------------------------------------------
(* Helpers: the proxy pool                                                 *)

\* The proxy_settings.proxies lists of the configurations considered.
ProxyPools == {<<>>, <<"p1">>, <<"p1", "p2">>, <<"p1", "p2", "p3">>}

\* The proxies callers report as failed: configured ones and a foreign one.
ReportedProxies == {"p1", "p2", "p3", "p9"}

\* Number of get_next_proxy calls a behaviour makes at most.
MaxProxyCalls == 4

\* Rotating over the whole pool, failed proxies included.
GetNextProxyNoSkip(pool, index, failed) ==
    IF pool = <<>>
    THEN [proxy |-> "None", index |-> index, failed |-> failed]
    ELSE [proxy |-> pool[(index % Len(pool)) + 1], index |-> index + 1,
          failed |-> failed]

\* get_next_proxy(): the proxy returned ("None" for None), and the index
\* and the failed set it leaves.
GetNextProxy(pool, index, failed) ==
    IF pool = <<>>
    THEN [proxy |-> "None", index |-> index, failed |-> failed]
    ELSE LET live == SelectSeq(pool, LAMBDA x : x \notin failed)
             available == IF live = <<>> THEN pool ELSE live
         IN [proxy |-> available[(index % Len(available)) + 1],
             index |-> index + 1,
             failed |-> IF live = <<>> THEN {} ELSE failed]

GetNextProxyCall ==
    /\ current_proxy_index < MaxProxyCalls
    /\ LET g == GetNextProxy(proxies, current_proxy_index, failed_proxies) IN
         /\ current_proxy_index' = g.index
         /\ failed_proxies' = g.failed
         /\ proxy_last' = [op |-> "get_next_proxy", value |-> g.proxy,
                           failed_before |-> failed_proxies]
    /\ UNCHANGED <<rl_now, request_times, admitted, proxies,
                   price_text, price_in, price_last>>
    /\ UNCHANGED <<fetchVars, runVars, schedVars, monVars>>

\* mark_proxy_failed(proxy)
MarkProxyFailed(proxy) ==
    /\ failed_proxies' = failed_proxies \cup {proxy}
    /\ proxy_last' = [op |-> "mark_proxy_failed", value |-> proxy,
                      failed_before |-> failed_proxies]
    /\ UNCHANGED <<rl_now, request_times, admitted, proxies, current_proxy_index,
                   price_text, price_in, price_last>>
    /\ UNCHANGED <<fetchVars, runVars, schedVars, monVars>>

ProxyNext ==
    \/ GetNextProxyCall
    \/ \E proxy \in ReportedProxies : MarkProxyFailed(proxy)

-----------------------------------------------------------------------------
(* Helpers: price texts and price validation                               *)

\* A text is a sequence of characters; a character outside ASCII is
\* written by its code point. PriceParser.CURRENCY_SYMBOLS, in the order
\* the dict is written (the order `for symbol, curr in ....items()` takes).
CURRENCY_SYMBOLS ==
    << [symbol |-> <<"N", "T", "$">>, curr |-> "TWD"],
       [symbol |-> <<"T", "W", "D">>, curr |-> "TWD"],
       [symbol |-> <<"U+53F0", "U+5E63">>, curr |-> "TWD"],
       [symbol |-> <<"$">>, curr |-> "USD"],
       [symbol |-> <<"U", "S", "D">>, curr |-> "USD"],
       [symbol |-> <<"U+7F8E", "U+5143">>, curr |-> "USD"],
       [symbol |-> <<"U+20AC">>, curr |-> "EUR"],
       [symbol |-> <<"E", "U", "R">>, curr |-> "EUR"],
       [symbol |-> <<"U+6B50", "U+5143">>, curr |-> "EUR"],
       [symbol |-> <<"U+00A3">>, curr |-> "GBP"],
       [symbol |-> <<"G", "B", "P">>, curr |-> "GBP"],
       [symbol |-> <<"U+82F1", "U+938A">>, curr |-> "GBP"],
       [symbol |-> <<"U+00A5">>, curr |-> "JPY"],
       [symbol |-> <<"J", "P", "Y">>, curr |-> "JPY"],
       [symbol |-> <<"U+65E5", "U+5143">>, curr |-> "JPY"],
       [symbol |-> <<"U+5143">>, curr |-> "CNY"],
       [symbol |-> <<"C", "N", "Y">>, curr |-> "CNY"],
       [symbol |-> <<"U+4EBA", "U+6C11", "U+5E63">>, curr |-> "CNY"] >>

\* currency_map of EnhancedScraperService._parse_price
currency_map ==
    << [symbol |-> <<"N", "T", "$">>, curr |-> "TWD"],
       [symbol |-> <<"T", "W", "D">>, curr |-> "TWD"],
       [symbol |-> <<"$">>, curr |-> "USD"],
       [symbol |-> <<"U+20AC">>, curr |-> "EUR"],
       [symbol |-> <<"U+00A3">>, curr |-> "GBP"],
       [symbol |-> <<"U+00A5">>, curr |-> "JPY"] >>

\* The value of a character matched by \d.
DigitValue ==
    ("0" :> 0) @@ ("1" :> 1) @@ ("2" :> 2) @@ ("3" :> 3) @@ ("4" :> 4) @@
    ("5" :> 5) @@ ("6" :> 6) @@ ("7" :> 7) @@ ("8" :> 8) @@ ("9" :> 9)

\* text.replace(symbol, ''): every occurrence of the symbol is removed,
\* left to right; the text is left as it is exactly when `symbol in text`
\* is false.
RECURSIVE Replace(_, _)
Replace(text, symbol) ==
    LET at == {i \in 1..(Len(text) - Len(symbol) + 1) :
                  SubSeq(text, i, i + Len(symbol) - 1) = symbol}
        i == CHOOSE i \in at : \A j \in at : i <= j
    IN IF at = {} THEN text
       ELSE SubSeq(text, 1, i - 1)
               \o Replace(SubSeq(text, i + Len(symbol), Len(text)), symbol)

\* float() of a string of digits: the number it denotes.
RECURSIVE Number(_)
Number(digits) ==
    IF digits = <<>> THEN 0
    ELSE 10 * Number(SubSeq(digits, 1, Len(digits) - 1)) + DigitValue[digits[Len(digits)]]

\* re.search(r'[\d,]+\.?\d*', text): the leftmost match, each part as long
\* as it can be: the run of digits and commas, and the digits after a
\* point that follows the run.
Search(text) ==
    LET IsDigit(i) == i <= Len(text) /\ text[i] \in DOMAIN DigitValue
        InRun(i) == i <= Len(text) /\ (IsDigit(i) \/ text[i] = ",")
        starts == {i \in 1..Len(text) : InRun(i)}
        first == CHOOSE i \in starts : \A j \in starts : i <= j
        last == CHOOSE j \in first..Len(text) :
                    (\A k \in first..j : InRun(k)) /\ ~InRun(j + 1)
        point == last + 1 <= Len(text) /\ text[last + 1] = "."
        stop == CHOOSE j \in (last + 1)..Len(text) :
                    (\A k \in (last + 2)..j : IsDigit(k)) /\ ~IsDigit(j + 1)
    IN IF starts = {} THEN [found |-> FALSE, run |-> <<>>, decimals |-> <<>>]
       ELSE [found |-> TRUE, run |-> SubSeq(text, first, last),
             decimals |-> IF point THEN SubSeq(text, last + 2, stop) ELSE <<>>]

\* What a price parser returns: (price, currency), price None when `found`
\* is false; `raised` when an exception leaves it.
PriceResult(found, price, currency, raised) ==
    [found |-> found, price |-> price, currency |-> currency, raised |-> raised]

\* The try block shared by PriceParser.parse_price_text and
\* EnhancedScraperService._parse_price, which differ in their table:
\* whitespace is removed; the first table symbol contained in the text
\* gives the currency and is removed; the first number is searched, its
\* commas removed and float() applied. float() raises ValueError on a
\* string without a digit ('' or '.').
TryParse(table, text) ==
    LET cleaned == SelectSeq(text, LAMBDA c : c # " ")
        hits == {k \in 1..Len(table) : Replace(cleaned, table[k].symbol) # cleaned}
        hit == IF hits = {} THEN 0 ELSE CHOOSE k \in hits : \A j \in hits : k <= j
        m == Search(IF hit = 0 THEN cleaned ELSE Replace(cleaned, table[hit].symbol))
        digits == SelectSeq(m.run, LAMBDA c : c # ",")
    IN IF ~m.found THEN PriceResult(FALSE, Rat(0, 1), "TWD", FALSE)
       ELSE IF digits = <<>> /\ m.decimals = <<>>
            THEN PriceResult(FALSE, Rat(0, 1), "TWD", TRUE)
            ELSE PriceResult(TRUE, Rat(Number(digits \o m.decimals), 10 ^ Len(m.decimals)),
                             IF hit = 0 THEN "TWD" ELSE table[hit].curr, FALSE)

\* parse_price_text without its try/except.
ParsePriceTextNoExcept(text) ==
    IF text = <<>> THEN PriceResult(FALSE, Rat(0, 1), "TWD", FALSE)
    ELSE TryParse(CURRENCY_SYMBOLS, text)

\* parse_price_text going through the table of _parse_price.
ParsePriceTextShortTable(text) ==
    LET r == TryParse(currency_map, text) IN
    IF text = <<>> \/ r.raised THEN PriceResult(FALSE, Rat(0, 1), "TWD", FALSE) ELSE r

\* PriceParser.parse_price_text(price_text): `if not price_text`, the try
\* block, and the `except Exception` after which (None, 'TWD') is returned.
ParsePriceText(text) ==
    LET r == TryParse(CURRENCY_SYMBOLS, text) IN
    IF text = <<>> \/ r.raised THEN PriceResult(FALSE, Rat(0, 1), "TWD", FALSE) ELSE r

\* price_ranges of is_valid_price; a currency without an entry gets
\* (0, float('inf')).
price_ranges ==
    ("TWD" :> <<500, 50000>>) @@ ("USD" :> <<20, 2000>>) @@ ("EUR" :> <<20, 2000>>) @@
    ("GBP" :> <<20, 2000>>) @@ ("JPY" :> <<2000, 200000>>)

\* is_valid_price without its first test.
IsValidPriceRangeOnly(price, currency) ==
    IF currency \in DOMAIN price_ranges
    THEN /\ ~RatLess(price, Rat(price_ranges[currency][1], 1))
         /\ ~RatLess(Rat(price_ranges[currency][2], 1), price)
    ELSE ~RatLess(price, Rat(0, 1))

\* DataValidator.is_valid_price(price, currency)
IsValidPrice(price, currency) ==
    IF ~RatLess(Rat(0, 1), price) THEN FALSE
    ELSE IF currency \in DOMAIN price_ranges
         THEN /\ ~RatLess(price, Rat(price_ranges[currency][1], 1))
              /\ ~RatLess(Rat(price_ranges[currency][2], 1), price)
         ELSE ~RatLess(price, Rat(0, 1))

\* The digit strings of the price texts, each with the amount it denotes.
DigitStrings ==
    { [text |-> <<"2", ",", "3", "5", "0", ".", "5", "0">>, value |-> Rat(235050, 100)],
      [text |-> <<"4", "5">>, value |-> Rat(45, 1)],
      [text |-> <<"1", ",", "2", "3", "4", ",", "5", "6", "7">>, value |-> Rat(1234567, 1)],
      [text |-> <<"3", ",", "2", "0", "0">>, value |-> Rat(3200, 1)],
      [text |-> <<"0">>, value |-> Rat(0, 1)] }

\* The price texts parsed: a symbol of the table before or after a digit
\* string, with or without a space between them; a digit string alone; and
\* the texts without a number.
PriceTexts ==
    LET symbols == {CURRENCY_SYMBOLS[k].symbol : k \in 1..Len(CURRENCY_SYMBOLS)} IN
    {s \o d.text : s \in symbols, d \in DigitStrings}
    \cup {d.text \o s : s \in symbols, d \in DigitStrings}
    \cup {s \o <<" ">> \o d.text : s \in symbols, d \in DigitStrings}
    \cup {d.text : d \in DigitStrings}
    \cup { <<>>, <<" ">>, <<"S", "o", "l", "d", " ", "O", "u", "t">>,
           <<"S", "o", "l", "d", ",", " ", "O", "u", "t">>, <<",">>, <<".">>,
           <<",", ".">>, <<"N", "T", "$">>, <<"N", "/", "A">>, <<"U+5143", ",">> }

\* The (price, currency) pairs is_valid_price is asked about.
PriceInputs ==
    {[price |-> Rat(n, 1), currency |-> c] :
        n \in {0 - 10, 0, 1, 19, 20, 21, 499, 500, 501, 1999, 2000, 2001, 3200,
               49999, 50000, 50001, 100000, 199999, 200000, 200001},
        c \in {"TWD", "USD", "EUR", "GBP", "JPY", "CNY"}}
    \cup {[price |-> Rat(49999, 100), currency |-> "TWD"],
          [price |-> Rat(5000001, 100), currency |-> "TWD"]}

\* PriceParser.parse_price_text(price_text)
ParsePriceTextCall ==
    /\ price_last' = [op |-> "parse_price_text", result |-> ParsePriceText(price_text),
                      valid |-> FALSE, stored |-> FALSE]
    /\ UNCHANGED <<rl_now, request_times, admitted, proxies, current_proxy_index,
                   failed_proxies, proxy_last, price_text, price_in>>
    /\ UNCHANGED <<fetchVars, runVars, schedVars, monVars>>

\* One hotel card of _parse_booking_results whose price element holds
\* price_text: `if price_text:`, _parse_price, `if price:` and the
\* ScrapingResult appended, which _save_results_to_db writes as a HotelPrice
\* row with that price and currency.
ParseCard ==
    /\ LET try == TryParse(currency_map, price_text)
           res == IF try.raised THEN PriceResult(FALSE, Rat(0, 1), "TWD", FALSE) ELSE try
       IN price_last' = [op |-> "card", result |-> res, valid |-> FALSE,
                         stored |-> /\ SelectSeq(price_text, LAMBDA c : c # " ") # <<>>
                                    /\ res.found
                                    /\ ~RatEq(res.price, Rat(0, 1))]
    /\ UNCHANGED <<rl_now, request_times, admitted, proxies, current_proxy_index,
                   failed_proxies, proxy_last, price_text, price_in>>
    /\ UNCHANGED <<fetchVars, runVars, schedVars, monVars>>

\* DataValidator.is_valid_price(price, currency)
IsValidPriceCall ==
    /\ price_last' = [op |-> "is_valid_price",
                      result |-> PriceResult(TRUE, price_in.price, price_in.currency, FALSE),
                      valid |-> IsValidPrice(price_in.price, price_in.currency),
                      stored |-> FALSE]
    /\ UNCHANGED <<rl_now, request_times, admitted, proxies, current_proxy_index,
                   failed_proxies, proxy_last, price_text, price_in>>
    /\ UNCHANGED <<fetchVars, runVars, schedVars, monVars>>

PriceNext ==
    \/ ParsePriceTextCall
    \/ ParseCard
    \/ IsValidPriceCall

-----------------------------------------------------------------------------
(* Specifications                                                          *)

FetchInit == FetchStart /\ RunOff /\ SchedOff /\ MonOff /\ HelperOff

RunInit == FetchOff /\ RunStart /\ SchedOff /\ MonOff /\ HelperOff

\* The orchestrator with database.batch_size configured either way.
SaveInit == FetchOff /\ RunStartWith(BatchSizes) /\ SchedOff /\ MonOff /\ HelperOff

SchedInit == FetchOff /\ RunOff /\ SchedStart /\ MonOff /\ HelperOff

SpecFetch == FetchInit /\ [][FetchNext]_vars

SpecRun == RunInit /\ [][RunNext]_vars

\* The pool threads and the collecting thread keep running: a step that
\* can be taken is taken.
SpecRunFair == RunInit /\ [][RunNext]_vars /\ WF_vars(RunNext)

SpecSave == SaveInit /\ [][RunNext]_vars

SpecSched == SchedInit /\ [][SchedNext]_vars

MonInit == FetchOff /\ RunOff /\ SchedOff /\ MonStart /\ HelperOff

SpecMon == MonInit /\ [][MonNext]_vars

SpecAlert == MonInit /\ [][AlertNext]_vars

SpecSnap == MonInit /\ [][SnapNext]_vars

SpecTrack == MonInit /\ [][TrackNext]_vars

LimiterInit == FetchOff /\ RunOff /\ SchedOff /\ MonOff /\ HelperOff

ProxyInit == FetchOff /\ RunOff /\ SchedOff /\ MonOff /\ HelperStart(ProxyPools, {<<>>}, {[price |-> Rat(0, 1), currency |-> "TWD"]})

SpecProxy == ProxyInit /\ [][ProxyNext]_vars

\* One input is drawn: a text for the parsers, or a pair for is_valid_price.
PriceInit ==
    /\ FetchOff /\ RunOff /\ SchedOff /\ MonOff
    /\ \/ HelperStart({<<>>}, PriceTexts, {[price |-> Rat(0, 1), currency |-> "TWD"]})
       \/ HelperStart({<<>>}, {<<>>}, PriceInputs)

SpecPrice == PriceInit /\ [][PriceNext]_vars

SpecLimiter == LimiterInit /\ [][LimiterNext]_vars

\* The alert scanner with any of the notification settings.
NotifyInit ==
    FetchOff /\ RunOff /\ SchedOff /\ MonStartWith(SUBSET {Sinks[1], Sinks[2]}) /\ HelperOff

SpecNotify == NotifyInit /\ [][NotifyNext]_vars

\* The threads keep running: a thread that can take its next step takes it.
SpecSnapFair ==
    /\ MonInit
    /\ [][SnapNext]_vars
    /\ WF_vars(RecordBegin(1))
    /\ WF_vars(RecordFinish(1))
    /\ WF_vars(SnapshotBegin)
    /\ WF_vars(\E site \in DOMAIN site_stats : SiteStatisticsRead(SnapThread, site))

\* The scheduler thread keeps running: time passes, a due job is fired, and
\* a scrape under way comes to an end. Calls from outside (ensure, remove,
\* the routes, a settings change) may or may not come.
SpecSchedFair ==
    /\ SchedInit
    /\ [][SchedNext]_vars
    /\ WF_vars(Tick)
    /\ WF_vars(\E j \in jobs : Fire(j))
    /\ WF_vars(\E c \in Callers, id \in SchedIds : WrapperScrapeEnd(c, id))

-----------------------------------------------------------------------------
(* Claims                                                                  *)

\* C1: a fetch whose load raises a transient error on the first two
\* attempts and succeeds on the third returns success after exactly 3 load
\* attempts on the session.
C1_RetryThenSuccess ==
    ( /\ fetch_pc = "done"
      /\ load_script[1] \in RetryExceptionTypes
      /\ load_script[2] \in RetryExceptionTypes
      /\ load_script[3] = "ok"
      /\ ready_script[3] )
    => (fetch_result = "True" /\ get_calls = 3)

\* The candidates a logged site visit produced.
VisitCandidates(e) ==
    {Candidate(e.site, k) :
        k \in 1..(CASE e.outcome = "fake" -> FakeHotels
                    [] e.outcome = "parsed" -> e.cards
                    [] OTHER -> 0)}

Range(seq) == {seq[i] : i \in DOMAIN seq}

\* Some visit of request r failed and, for the failed visit at position i
\* of the log, the enabled sites configured after it were all visited.
SomeSiteFailed(r) == \E i \in DOMAIN site_log[r] : SiteFailed(site_log[r][i].outcome)

LaterSitesAttempted(r) ==
    \A p \in DOMAIN target_sites, q \in DOMAIN target_sites :
        ( /\ p < q
          /\ target_sites[q].enabled
          /\ \E i \in DOMAIN site_log[r] :
                /\ site_log[r][i].site = target_sites[p].name
                /\ SiteFailed(site_log[r][i].outcome) )
        => \E k \in DOMAIN site_log[r] : site_log[r][k].site = target_sites[q].name

SucceededCandidatesReturned(r) ==
    /\ r \in DOMAIN results
    /\ \A i \in DOMAIN site_log[r] : VisitCandidates(site_log[r][i]) \subseteq Range(results[r])

\* C2 as stated: when a site of a request fails, every later enabled site
\* is still attempted and the candidates of the sites that succeeded are in
\* the request's entry of the returned map.
C2_SiteFailureIsolated ==
    main_pc = "returned" =>
        \A r \in RequestIds :
            SomeSiteFailed(r) => (LaterSitesAttempted(r) /\ SucceededCandidatesReturned(r))

\* C2 amended: when a site of a request fails, every later enabled site is
\* still attempted; the candidates of the sites that succeeded are in the
\* request's entry of the returned map unless the request's batch write
\* failed, and then the entry is the empty list.
C2_SiteFailureIsolatedUnlessWriteFails ==
    main_pc = "returned" =>
        \A r \in RequestIds :
            SomeSiteFailed(r) =>
                /\ LaterSitesAttempted(r)
                /\ future[r].state = "returned" => SucceededCandidatesReturned(r)
                /\ future[r].state = "raised" => (r \in DOMAIN results /\ results[r] = <<>>)

\* C2 witness: the call returned; Booking.com failed for a request, the
\* site after it was visited and its candidates are in the request's entry.
C2_Witness ==
    /\ main_pc = "returned"
    /\ \E r \in RequestIds :
         /\ future[r].state = "returned"
         /\ Len(site_log[r]) = Len(SiteNames)
         /\ site_log[r][2].outcome = "fetch_failed"
         /\ Candidate(site_log[r][3].site, 1) \in Range(results[r])

\* The request's processing failed: no session, or its scrape raised (the
\* batch write failed).
RequestFailed(r) ==
    \/ (task_pc[r] = "done" /\ driver[r] = "none")
    \/ future[r].state = "raised"

\* C3: a failure while processing one request never keeps another request
\* from being processed to completion; the failed request is mapped to the
\* empty list, the others to their candidates, and the call returns (it is
\* never stuck before returning).
C3_RequestFailureIsolated ==
    /\ main_pc = "returned" =>
         \A r \in RequestIds :
            /\ task_pc[r] = "done"
            /\ r \in DOMAIN results
            /\ RequestFailed(r) => results[r] = <<>>
            /\ ~RequestFailed(r) => results[r] = all_results[r]
    /\ main_pc # "returned" => ENABLED RunNext

\* C3 witness: the call returned with one request whose write failed, one
\* without a session, and one with candidates in its entry.
C3_Witness ==
    /\ main_pc = "returned"
    /\ \E a, b, c \in RequestIds :
         /\ future[a].state = "raised"
         /\ driver[b] = "none"
         /\ results[c] # <<>>

\* C4: with fewer pool threads than requests the call terminates, the
\* scrape of each request runs exactly once, the returned map has exactly
\* one entry per submitted request id, and no worker is still running when
\* the call returns.
C4_AllRequestsOnce ==
    /\ [](\A r \in RequestIds : scrape_runs[r] <= 1)
    /\ [](main_pc = "returned" =>
            /\ \A r \in RequestIds : scrape_runs[r] = 1 /\ task_pc[r] = "done"
            /\ DOMAIN results = RequestIds
            /\ running = {})
    /\ <>(main_pc = "returned")

\* C4 witness: the pool is narrower than the request list and the call has
\* returned with every request processed once.
C4_Witness ==
    /\ MaxWorkers < NumRequests
    /\ main_pc = "returned"
    /\ \A r \in RequestIds : scrape_runs[r] = 1

\* C5: a request whose session was acquired has released it exactly once
\* by the time its scrape returns or raises, whatever its sites did, and no
\* site is visited after the release.
C5_SessionReleasedOnce ==
    /\ [](\A r \in RequestIds :
            /\ quit_calls[r] <= 1
            /\ (driver[r] # "none" /\ future[r].state # "pending")
                 => (quit_calls[r] = 1 /\ driver[r] = "quit"))
    /\ [][\A r \in RequestIds : driver[r] = "quit" => site_log'[r] = site_log[r]]_vars

\* C5 witness: a scrape with a failed site and a successful site has
\* raised (its write failed) with the session released.
C5_Witness ==
    \E r \in RequestIds :
        /\ future[r].state = "raised"
        /\ SomeSiteFailed(r)
        /\ driver[r] = "quit"
        /\ quit_calls[r] = 1

\* The jobs of the registry that belong to request id.
JobsOf(store, id) == {j \in store : j.args = id}

\* C6: the registry holds at most one job per request id, each under the
\* identifier derived from its request id; right after ensure(id) there is
\* exactly one job for id and its interval is the one ensure was called
\* with, also when a job with another interval existed before.
C6_OneJobPerRequest ==
    /\ \A id \in SchedIds :
         /\ Cardinality(JobsOf(jobs, id)) <= 1
         /\ Cardinality(GetJob(jobs, JobId(id))) <= 1
    /\ \A j \in jobs : j.id = JobId(j.args) /\ j.args \in SchedIds
    /\ last_op.op = "ensure" =>
         /\ Cardinality(JobsOf(jobs, last_op.id)) = 1
         /\ \A j \in JobsOf(jobs, last_op.id) : j.hours = crawl_interval_hours

\* C6 witness: ensure has just acted on a request whose job had another
\* interval, while the other request has a job too.
C6_Witness ==
    /\ last_op.op = "ensure"
    /\ last_op.flag
    /\ Cardinality(jobs) = 2

Acted(op, id) == last_op'.op = op /\ last_op'.id = id

\* C8: runNow on a request that already has a job (and is tracked) runs
\* the scrape at once and leaves the job's next-fire time and interval as
\* they were.
C8_RunNowKeepsSchedule ==
    [][\A id \in SchedIds :
         ( /\ Acted("run_now", id)
           /\ JobsOf(jobs, id) # {}
           /\ search_requests[id] = "tracking" )
         => /\ wrapper_pc'[<<"run_now", id>>] = "scraping"
            /\ JobsOf(jobs', id) = JobsOf(jobs, id)]_vars

C10_RemoveIdempotent ==
    /\ \A id \in SchedIds :
         LET once == RemoveScheduledJob(jobs, id)
             twice == RemoveScheduledJob(once.store, id)
         IN /\ ~once.raised /\ ~twice.raised
            /\ JobsOf(jobs, id) = {} => once.store = jobs
            /\ twice.store = once.store
            /\ JobsOf(once.store, id) = {}
            /\ \A other \in SchedIds \ {id} : JobsOf(once.store, other) = JobsOf(jobs, other)
    /\ last_op.op = "remove" => JobsOf(jobs, last_op.id) = {}
    /\ escaped = {}

\* C10 witness: remove has just acted on a request that had no job, while
\* the other request keeps its job.
C10_Witness ==
    /\ last_op.op = "remove"
    /\ ~last_op.flag
    /\ jobs # {}

\* C11: when create_app has returned, every request that is tracked in the
\* store has exactly one job in the registry, the registry being what one
\* ensure per tracked request makes of the empty one.
C11_StartupReconciles ==
    last_op.op = "init" =>
        /\ \A id \in SchedIds :
              search_requests[id] = "tracking" => Cardinality(JobsOf(jobs, id)) = 1
        /\ jobs = RescheduleAllActiveJobs({}, search_requests, crawl_interval_hours, now)

\* C12: the job of a request follows the request: a tracked request gets a
\* job, a request whose tracking is disabled eventually has no job, and the
\* job of a deleted request is gone at the latest when it next fires.
C12_JobFollowsLifecycle ==
    /\ \A id \in SchedIds :
          /\ (search_requests[id] = "tracking")
                 ~> (JobsOf(jobs, id) # {} \/ search_requests[id] # "tracking")
          /\ (search_requests[id] = "paused")
                 ~> (JobsOf(jobs, id) = {} \/ search_requests[id] # "paused")
    /\ [][\A id \in SchedIds :
             (Acted("fire", id) /\ last_op'.branch # "busy"
                               /\ search_requests[id] = "absent")
             => JobsOf(jobs', id) = {}]_vars


\* C13: for one run of one request nothing is written to the store before
\* every enabled site of the request has been attempted, and the request's
\* candidates are then written as a single transaction, never as several
\* sub-batches.
C13_SingleBatchAfterAllSites ==
    \A r \in RequestIds :
        /\ db_prices[r] # <<>> => site_idx[r] > Len(target_sites)
        /\ Len(db_prices[r]) <= 1
        /\ last_crawled[r] => db_prices[r] = <<all_results[r]>>

\* C14: when the write of a request's candidates fails, none of that run's
\* rows is in the store, last_crawled_at is not written, and the failure
\* stays with that request: its entry is the empty list.
C14_FailedWriteRolledBack ==
    \A r \in RequestIds :
        future[r].state = "raised" =>
            /\ db_prices[r] = <<>>
            /\ ~last_crawled[r]
            /\ r \in DOMAIN results => results[r] = <<>>

\* C15: one fetch call makes at most 3 load attempts, and a load that
\* raises an error outside the transient allow-list makes the fetch fail
\* after exactly one attempt.
C15_NoRetryOnOtherErrors ==
    /\ get_calls <= StopAfterAttempt
    /\ (fetch_pc = "done" /\ load_script[1] \notin RetryExceptionTypes \cup {"ok"})
          => (get_calls = 1 /\ fetch_result # "True")

\* C15 witness: a fetch has ended whose first load raised an error outside
\* the allow-list although a second load would have succeeded.
C15_Witness ==
    /\ fetch_pc = "done"
    /\ load_script[1] = "Other"
    /\ load_script[2] = "ok" /\ ready_script[2]
    /\ get_calls = 1

\* The visits of a site that the orchestrator's runs have made.
SiteVisits(site) ==
    {<<r, i>> \in RequestIds \X (1..Len(SiteNames)) :
        i <= Len(site_log[r]) /\ site_log[r][i].site = site}

\* C16: every scrape attempt of the orchestrator (one per enabled site per
\* request run) passes exactly one record to record_metrics.
C16_EveryAttemptRecorded ==
    \A site \in MonSites :
        mon_calls[site].n + Cardinality({w \in MonWorkers :
                                mon_local[w].pc # "idle" /\ mon_local[w].m.site_name = site})
            = Cardinality(SiteVisits(site))

\* C17: whenever get_site_statistics can run, it reports for every site
\* total_requests equal to the number of records of that site, successful
\* plus failed equal to the total, and the success rate successful / total
\* (0.6 after 10 records with 6 successes); with no record the rate and the
\* mean duration are 0.
C17_SiteStatistics ==
    stats_lock = 0 =>
      \A site \in MonSites :
        LET g == GetSiteStatistics(site_stats, site).stats
            c == mon_calls[site]
        IN /\ g.total_requests = c.n
           /\ g.successful_requests = c.ok
           /\ g.successful_requests + g.failed_requests = g.total_requests
           /\ c.n > 0 => /\ RatEq(g.success_rate, Rat(c.ok, c.n))
                         /\ RatEq(g.average_duration, Rat(c.dur, c.n))
           /\ (c.n = 10 /\ c.ok = 6) => RatEq(g.success_rate, Rat(6, 10))
           /\ c.n = 0 => g.success_rate.num = 0 /\ g.average_duration.num = 0

\* C17 witness: 10 records of one site, 6 of them successes, and another
\* site without any record.
C17_Witness ==
    /\ stats_lock = 0
    /\ mon_calls["Agoda"] = [n |-> 10, ok |-> 6, dur |-> 20]
    /\ mon_calls["Booking.com"].n = 0
    /\ site_stats["Agoda"].total_requests = 10

\* The record_metrics calls that went past the lock.
RecordsEntered == RecordsBegun - Cardinality({w \in MonWorkers : mon_local[w].pc = "waiting"})

\* C18: with several threads in record_metrics at once, at most one is
\* inside the locked block, no counter update is lost (each site's
\* total_requests is the number of its calls that returned), and the
\* history has one entry per call that got in, up to its cap.
C18_NoLostUpdate ==
    /\ Cardinality({w \in MonWorkers : mon_local[w].pc = "in"}) <= 1
    /\ \A site \in MonSites :
         StatsOf(site_stats, site).total_requests = mon_calls[site].n
    /\ Len(metrics_history) =
         IF RecordsEntered < MaxHistory THEN RecordsEntered ELSE MaxHistory

\* C18 witness: one thread is inside the locked block for a site while
\* another thread's call for the same site waits for the lock.
C18_Witness ==
    /\ mon_local[1].pc = "in"
    /\ mon_local[2].pc = "waiting"
    /\ mon_local[1].m.site_name = mon_local[2].m.site_name
    /\ mon_calls[mon_local[1].m.site_name].n >= 1

\* The time of the latest alert of (type, site) in the history, 0 if none.
LastEntryTime(history, type, site) ==
    LET T == {history[i].time : i \in {k \in DOMAIN history :
                  history[k].type = type /\ history[k].site_name = site}}
    IN IF T = {} THEN 0 ELSE CHOOSE t \in T : \A u \in T : u <= t

\* C19: two alerts of the same (type, site) in the history are at least
\* the cooldown apart and every history entry was dispatched once; and a
\* breach found when the scan checks a site is emitted whenever no alert of the same type
\* and the same site was emitted within the cooldown, whatever was emitted
\* for other types and sites, and is not emitted otherwise.
C19_Cooldown ==
    /\ [](/\ \A i, j \in DOMAIN alert_history :
               ( /\ i < j
                 /\ alert_history[i].type = alert_history[j].type
                 /\ alert_history[i].site_name = alert_history[j].site_name )
               => alert_history[j].time - alert_history[i].time >= MinAlertInterval
          /\ dispatched = Len(alert_history))
    /\ [][\A site \in MonSites :
            (mon_last'.op = "scan_site" /\ mon_last'.site = site) =>
               \A ty \in Breaches(GetSiteStatistics(site_stats, site).stats) :
                  LET due == current_time - LastEntryTime(alert_history, ty, site)
                                >= MinAlertInterval
                      new == \E i \in DOMAIN alert_history' :
                                /\ i > Len(alert_history)
                                /\ alert_history'[i] =
                                     [type |-> ty, site_name |-> site, time |-> current_time]
                  IN due <=> new]_vars

\* C19 witness: a scan has found two breaches on one site, has suppressed
\* the one whose alert went out less than the cooldown before and has
\* emitted the other type.
C19_Witness ==
    /\ mon_last.op = "scan_site"
    /\ mon_last.suppressed = {"low_success_rate"}
    /\ mon_last.sent = {"slow_response"}
    /\ Len(alert_history) >= 2

\* C20: no alert of either type is in the history for a site with fewer
\* than 5 recorded attempts.
C20_NoAlertBelowMinAttempts ==
    \A i \in DOMAIN alert_history :
        StatsOf(site_stats, alert_history[i].site_name).total_requests >= MinAttempts

\* C21: every get_overall_statistics call returns with the stats lock
\* released, and every record_metrics call that waits for the lock
\* completes.
C21_SnapshotReturns ==
    /\ (snap_pc # "idle") ~> (snap_pc = "idle" /\ stats_lock # SnapThread)
    /\ (mon_local[1].pc = "waiting") ~> (mon_local[1].pc = "idle")

\* C22: a scan iteration in which a notification sink fails ends normally:
\* every alert it emitted is in the alert history with its cooldown
\* timestamp recorded, no exception leaves the scan, and the scan goes on
\* with the sites that remain.
C22_SinkFailureContained ==
    /\ [][mon_last'.op # "sink_error"]_vars
    /\ [][sink_errors' > sink_errors =>
            /\ mon_last'.op = "scan_site"
            /\ mon_last'.sent # {}
            /\ \A ty \in mon_last'.sent :
                  /\ LastAlertTime(last_alert_times', AlertKey(ty, mon_last'.site))
                        = current_time
                  /\ \E i \in 1..Len(alert_history') :
                        alert_history'[i] = [type |-> ty, site_name |-> mon_last'.site,
                                             time |-> current_time]
            /\ scan_pc' = "scanning"
            /\ scan_todo' = scan_todo \ {mon_last'.site}]_vars

\* A sink failed on every alert dispatched so far, and one scan alerted for
\* both sites.
C22_Witness ==
    /\ sink_errors = Len(alert_history)
    /\ mon_last.op = "scan_site"
    /\ mon_last.sent # {}
    /\ \E i, j \in 1..Len(alert_history) :
          /\ alert_history[i].time = alert_history[j].time
          /\ alert_history[i].site_name # alert_history[j].site_name

\* C23: of the wait_if_needed calls, at most requests_per_minute return
\* within any 60 seconds.
C23_RateCeiling ==
    \A i \in 1..Len(admitted) :
        Cardinality({j \in 1..Len(admitted) :
                        /\ admitted[i] <= admitted[j]
                        /\ admitted[j] < admitted[i] + RateWindow})
            <= RequestsPerMinute

\* C24: with a non-empty pool get_next_proxy returns a configured proxy,
\* never None; it returns no quarantined proxy while a configured proxy is
\* outside the quarantine set; when every configured proxy is quarantined
\* the set is cleared.
C24_QuarantineSkipped ==
    (proxy_last.op = "get_next_proxy" /\ proxies # <<>>) =>
        LET pool == {proxies[i] : i \in 1..Len(proxies)} IN
        /\ proxy_last.value \in pool
        /\ IF pool \subseteq proxy_last.failed_before
           THEN failed_proxies = {}
           ELSE /\ proxy_last.value \notin proxy_last.failed_before
                /\ failed_proxies = proxy_last.failed_before

\* The rotation went past a quarantined proxy.
C24_Witness ==
    /\ proxy_last.op = "get_next_proxy"
    /\ Len(proxies) = 3
    /\ proxy_last.value = proxies[3]
    /\ proxies[1] \in proxy_last.failed_before
    /\ current_proxy_index = 2

\* The whole pool was quarantined and rotation resumed.
C24_WitnessCleared ==
    /\ proxy_last.op = "get_next_proxy"
    /\ Len(proxies) = 2
    /\ {proxies[1], proxies[2]} \subseteq proxy_last.failed_before
    /\ failed_proxies = {}

\* C26: a visit of a site without a strategy of its own, and a visit whose
\* strategy raised, both leave the fixed set of synthetic candidates tagged
\* with the site's name in the request's results.
C26_FakeDataOnStrategyError ==
    \A r \in RequestIds : \A i \in 1..Len(site_log[r]) :
        site_log[r][i].outcome \in {"fake", "raised"} =>
            SelectSeq(all_results[r], LAMBDA c : c.source_site = site_log[r][i].site)
                = GenerateEnhancedFakeData(site_log[r][i].site)

\* C27: a request whose session acquisition failed, on whichever path, has
\* the failure logged as an error, visited no site, wrote nothing, left
\* last-crawled alone and returned the empty list without raising.
C27_AcquireFailureSkipsRequest ==
    \A r \in RequestIds :
        acquire[r].path \notin {"none", "ok"} =>
            /\ acquire[r].errors # {}
            /\ site_log[r] = <<>>
            /\ all_results[r] = <<>>
            /\ db_prices[r] = <<>>
            /\ ~last_crawled[r]
            /\ quit_calls[r] = 0
            /\ future[r] = [state |-> "returned", value |-> <<>>]

\* The call returned with one request on each failure path.
C27_Witness ==
    /\ main_pc = "returned"
    /\ {acquire[r].path : r \in RequestIds} = AcquirePaths \ {"ok"}

\* C25: a price observation written to the store by a scrape run passes
\* is_valid_price: its amount is positive and inside the band of its
\* currency.
C25_OnlyPlausiblePricesStored ==
    (price_last.op = "card" /\ price_last.stored) =>
        IsValidPrice(price_last.result.price, price_last.result.currency)

\* C28: for a symbol of the currency table put before or after a digit
\* string with thousands separators, parse_price_text returns the currency
\* the table gives for the symbol and the amount the digits denote, also
\* when the symbol contains a shorter symbol of the table.
C28_ParseRecoversCurrencyAndAmount ==
    price_last.op = "parse_price_text" =>
        \A k \in 1..Len(CURRENCY_SYMBOLS) : \A d \in DigitStrings :
            LET sym == CURRENCY_SYMBOLS[k].symbol IN
            price_text \in {sym \o d.text, d.text \o sym, sym \o <<" ">> \o d.text} =>
                /\ price_last.result.found
                /\ ~price_last.result.raised
                /\ RatEq(price_last.result.price, d.value)
                /\ price_last.result.currency = CURRENCY_SYMBOLS[k].curr

\* "NT$2,350.50" was parsed.
C28_Witness ==
    /\ price_last.op = "parse_price_text"
    /\ price_text = <<"N", "T", "$", "2", ",", "3", "5", "0", ".", "5", "0">>
    /\ price_last.result.found
    /\ price_last.result.currency = "TWD"
    /\ price_last.result.price = Rat(235050, 100)

\* C29: parse_price_text returns None as the amount, without raising, for
\* a text that holds no digit.
C29_NoNumberGivesNone ==
    (/\ price_last.op = "parse_price_text"
     /\ \A i \in 1..Len(price_text) : price_text[i] \notin DOMAIN DigitValue) =>
        /\ ~price_last.result.found
        /\ ~price_last.result.raised

\* "Sold, Out" was parsed.
C29_Witness ==
    /\ price_last.op = "parse_price_text"
    /\ price_text = <<"S", "o", "l", "d", ",", " ", "O", "u", "t">>
    /\ ~price_last.result.found

\* C30: is_valid_price is false for an amount <= 0 in any currency, and
\* for a currency with a band it is true exactly for the amounts from the
\* lower to the upper bound, both included (TWD: 500 to 50000).
C30_PlausibleBand ==
    price_last.op = "is_valid_price" =>
        LET a == price_in.price
            c == price_in.currency
            Within(lo, hi) == ~RatLess(a, Rat(lo, 1)) /\ ~RatLess(Rat(hi, 1), a)
        IN /\ ~RatLess(Rat(0, 1), a) => ~price_last.valid
           /\ c = "TWD" => (price_last.valid <=> Within(500, 50000))
           /\ c \in {"USD", "EUR", "GBP"} => (price_last.valid <=> Within(20, 2000))
           /\ c = "JPY" => (price_last.valid <=> Within(2000, 200000))

\* 50000 TWD, the upper bound of its band, was accepted.
C30_Witness ==
    /\ price_last.op = "is_valid_price"
    /\ price_in = [price |-> Rat(50000, 1), currency |-> "TWD"]
    /\ price_last.valid

\* C31: a finished run has written last_crawled_at exactly when all of its
\* observations are in the store, and never without them.
C31_LastCrawledIffWritten ==
    \A r \in RequestIds :
        task_pc[r] = "done" =>
            (last_crawled[r] <=>
                (/\ all_results[r] # <<>>
                 /\ db_prices[r] = Batches(all_results[r], batch_size)))

\* C32: at every moment of a request's run the sites visited so far are
\* the enabled sites among the positions of the configured list the loop
\* has passed, in that order, each once; a disabled site is never visited.
C32_SitesInConfiguredOrder ==
    \A r \in RequestIds :
        LET passed == SubSeq(target_sites, 1, site_idx[r] - 1)
            enabled == SelectSeq(passed, LAMBDA cfg : cfg.enabled)
        IN /\ site_idx[r] <= Len(target_sites) + 1
           /\ Len(site_log[r]) = Len(enabled)
           /\ \A i \in 1..Len(site_log[r]) : site_log[r][i].site = enabled[i].name

\* A run over a list whose first site is disabled visited the second site,
\* where the visit failed, and then the third.
C32_Witness ==
    \E r \in RequestIds :
        /\ task_pc[r] = "done"
        /\ ~target_sites[1].enabled /\ target_sites[2].enabled /\ target_sites[3].enabled
        /\ Len(site_log[r]) = 2
        /\ site_log[r][1].site = SiteNames[2]
        /\ SiteFailed(site_log[r][1].outcome)
        /\ site_log[r][2].site = SiteNames[3]

\* C33: the alert scanner never begins or continues its iteration over
\* site_stats while a worker is inside record_metrics, between adding the
\* site and storing its counters, and the iteration is never broken by a
\* worker adding a site.
C33_ScannerInsideCriticalSection ==
    /\ mon_last.op \in {"scan_start", "scan_end"} =>
           \A w \in MonWorkers : mon_local[w].pc # "in"
    /\ mon_last.op # "scan_error"

\* C34: the metrics history never holds more than max_history entries, it
\* changes only when a record_metrics call enters the locked block, and
\* then the new record is its last entry and the entries before it are the
\* former history, without its oldest entry when that history was full.
C34_HistoryBounded ==
    /\ [](Len(metrics_history) <= MaxHistory)
    /\ [][LET entering == {w \in MonWorkers :
                              mon_local[w].pc = "waiting" /\ mon_local'[w].pc = "in"}
              h == metrics_history
              kept == IF Len(h) < MaxHistory THEN h ELSE Tail(h)
          IN /\ entering = {} => metrics_history' = h
             /\ \A w \in entering :
                    /\ metrics_history' # <<>>
                    /\ metrics_history'[Len(metrics_history')] = mon_local[w].m
                    /\ SubSeq(metrics_history', 1, Len(metrics_history') - 1) = kept]_vars

\* A record entered a full history: its oldest entry, a record of the
\* other site, is gone and the new record is the last entry.
C34_Witness ==
    /\ mon_last.op = "record"
    /\ RecordsEntered > MaxHistory
    /\ Len(metrics_history) = MaxHistory
    /\ mon_calls["Agoda"].n > 0
    /\ \A i \in 1..Len(metrics_history) : metrics_history[i].site_name = "Booking.com"

\* C35: leaving a tracked block builds exactly one metrics record however
\* the body ended: a success when the body completed, and when the body
\* raised a failure carrying the error message, after which the body's
\* own exception goes on to the caller.
C35_OneRecordPerExit ==
    track_last.body # "none" =>
        LET t == track_last.exit IN
        /\ Len(t.records) = 1
        /\ track_last.body = "returned" => t.records[1].success /\ t.raised = "none"
        /\ track_last.body # "returned" =>
               /\ ~t.records[1].success
               /\ t.error_message # "None"
               /\ t.raised = track_last.body

\* C36: the keys of the statistics store are exactly the sites that had an
\* attempt recorded: get_site_statistics and is_site_healthy add none.
C36_ReadsAddNoSite ==
    DOMAIN site_stats =
        {site \in MonSites :
            \/ mon_calls[site].n > 0
            \/ \E w \in MonWorkers :
                   mon_local[w].pc = "in" /\ mon_local[w].m.site_name = site}

\* C37: when a request's run is over, the browser its get_webdriver call
\* started has been shut down by quit(), also when a configuration step
\* after the start failed and get_webdriver returned None.
C37_StartedBrowserReleased ==
    \A r \in RequestIds :
        (task_pc[r] = "done" /\ BrowserStarted(acquire[r].path)) => quit_calls[r] = 1

C39_EmptyRunWritesNothing ==
    \A r \in RequestIds :
        (task_pc[r] = "done" /\ acquire[r].path = "ok" /\ all_results[r] = <<>>) =>
            /\ site_idx[r] > Len(target_sites)
            /\ db_prices[r] = <<>>
            /\ ~last_crawled[r]
            /\ future[r] = [state |-> "returned", value |-> <<>>]

\* A run whose only enabled site was visited and showed no result ended
\* with nothing written, while another request's run did write.
C39_Witness ==
    \E r, q \in RequestIds :
        /\ task_pc[r] = "done"
        /\ Len(site_log[r]) = 1
        /\ site_log[r][1].outcome = "no_results"
        /\ all_results[r] = <<>>
        /\ db_prices[r] = <<>>
        /\ last_crawled[q]

\* C40: every enabled notification sink has been called once for each
\* alert handed to _send_notification, whether or not another sink failed.
C40_EverySinkAttempted ==
    \A k \in notify_config : sink_calls[k] = dispatched

=============================================================================
